---- MODULE Spec2Model ----
(***************************************************************************)
(* Batch lifecycle and two-factor authorization engine of the farmers'     *)
(* payment portal (src/app.py).  The persisted state is the SQLite         *)
(* database (users, submission_batches, farmer_payments, invoices,         *)
(* payment_history, activity_logs); the per-browser state is the set of    *)
(* dcc.Store / component properties the callbacks read and write.  Every   *)
(* callback is one action, except where a callback commits more than once: *)
(* there each committed unit is one action and a program counter of the    *)
(* running request links them, so that the states other requests (and a    *)
(* crash) can observe are exactly the committed ones.                      *)
(***************************************************************************)
EXTENDS Integers, Sequences, FiniteSets, TLC

VARIABLES
    users,                       \* table users
    submission_batches,          \* table submission_batches, id = index
    farmer_payments,             \* table farmer_payments, id = index
    invoices,                    \* table invoices, id = index
    payment_history,             \* table payment_history
    activity_logs,               \* table activity_logs
    user_session,                \* dcc.Store user-session of each browser
    password_change_alert,       \* password-change-alert.children
    admin_create_user_alert,     \* admin-create-user-alert.children
    password_form,               \* new-password, confirm-password,
                                 \* new-passphrase and new-pin .value
    approver_details_modal,      \* approver-details-modal.children: the
                                 \* batch whose payment-button it holds
    table_data,                  \* editable-datatable.data of each browser
    coop_alert,                  \* coop-alert.children of each browser
    submit_req,                  \* a submit_to_approver request in flight
    payment_auth_modal_is_open,  \* payment-auth-modal.is_open
    auth_modal_event,            \* payment-auth-modal.is_open was written
    payment_authorization_store, \* dcc.Store payment-authorization-store
    payment_auth_step_store,     \* dcc.Store payment-auth-step-store
    pin_input_store,             \* dcc.Store pin-input-store
    auth_passphrase_input,       \* auth-passphrase-input.value
    auth_passphrase_alert,       \* auth-passphrase-alert.children
    auth_pin_alert,              \* auth-pin-alert.children
    batch_to_process,            \* dcc.Store batch-to-process
    payment_modal_is_open,       \* payment-modal.is_open
    payment_modal_event,         \* payment-modal.is_open was written
    payment_interval_disabled,   \* payment-interval.disabled
    payment_close_button_disabled, \* payment-close-button.disabled
    n_intervals,                 \* payment-interval.n_intervals
    ipn_data_store,              \* dcc.Store ipn-data-store
    finalize_req                 \* a finalize request in flight

db == <<users, submission_batches, farmer_payments, invoices, payment_history,
        activity_logs>>
uploader_ui == <<table_data, coop_alert, submit_req>>
auth_ui == <<payment_auth_modal_is_open, auth_modal_event,
             payment_authorization_store, payment_auth_step_store,
             pin_input_store, auth_passphrase_input, auth_passphrase_alert,
             auth_pin_alert>>
payment_ui == <<batch_to_process, payment_modal_is_open, payment_modal_event,
                payment_interval_disabled, payment_close_button_disabled,
                n_intervals, ipn_data_store, finalize_req>>
vars == <<users, submission_batches, farmer_payments, invoices,
          payment_history, activity_logs, user_session, password_change_alert, admin_create_user_alert, password_form, approver_details_modal, table_data,
          coop_alert, submit_req, payment_auth_modal_is_open,
          auth_modal_event, payment_authorization_store,
          payment_auth_step_store, pin_input_store, auth_passphrase_input,
          auth_passphrase_alert, auth_pin_alert,
          batch_to_process, payment_modal_is_open, payment_modal_event,
          payment_interval_disabled, payment_close_button_disabled,
          n_intervals, ipn_data_store, finalize_req>>

(***************************************************************************)
(* Bounds of the model.                                                    *)
(***************************************************************************)
MaxRows == 1          \* rows of an uploaded file
MaxBatches == 2       \* batches submitted before the approvers act
MaxSubmissions == 1   \* submissions per uploading browser
MaxIntervals == 5     \* timer ticks of one browser
MaxAuthorized == 2    \* 'Payment Authorized' rows of activity_logs
MaxRotations == 1     \* 'Password Change' rows of activity_logs

Clients == {"c1", "c2"}

None == "None"        \* Python None / SQL NULL, where the values are strings
Nothing == <<>>       \* Python None, where the value is a record or a hash

(***************************************************************************)
(* Program constants.                                                      *)
(***************************************************************************)
COST_PER_ROW_CENTS == 150         \* COST_PER_ROW_USD = 1.50, in cents
EXCHANGE_RATE_TSH_TO_USD == 2500
PAYMENT_COMMISSION_RATE_PER_MILLE == 25   \* PAYMENT_COMMISSION_RATE = 0.025
ANIMATION_TICKS_ONE_SHORT == 4 - 1     \* "if n_intervals < 3"
ANIMATION_TICKS == 4              \* "if n_intervals < 4"
PIN_LENGTH == 6                   \* "elif len(current_pin) < 6"

VERIFICATION_REASONS ==
    {"Account Closed", "Name Mismatch", "Invalid Bank Code", "System Check Failed"}
RECHECK_REASONS == {"Account Closed", "Name Mismatch", "Invalid Bank Code"}
SETTLEMENT_REASONS ==
    {"Bank Communication Timeout", "Daily Limit Reached", "System Error"}
UNCORRECTED == "Pre-verified Failed (Uncorrected)"

Rank(status) ==
    CASE status = "coop_submitted" -> 0
      [] status = "pending_admin_approval" -> 1
      [] status = "verified" -> 2
      [] status = "processed" -> 3

(***************************************************************************)
(* hashlib.sha256(x.encode()).hexdigest(): a one-way function, injective   *)
(* on the strings of the model and never equal to its argument.            *)
(***************************************************************************)
sha256(x) == <<"sha256", x>>

admin_pass_unhashed == "admin123"
coop_pass_unhashed == "coop123"
admin_passphrase_unhashed == "adminpass"
admin_pin_unhashed == <<"9", "8", "7", "6", "5", "4">>
coop_passphrase_unhashed == "cooppass"
coop_pin_unhashed == <<"1", "2", "3", "4", "5", "6">>

\* init_db: the users inserted at construction (the admin, the CORECU
\* uploader, and the finance approvers of the first two unions).
init_db_users ==
    << [username |-> "admin", password |-> sha256(admin_pass_unhashed),
        role |-> "admin",
        cooperative_name |-> "Farmers Payment Module Admin",
        temp_password |-> admin_pass_unhashed,
        passphrase |-> sha256(admin_passphrase_unhashed),
        pin |-> sha256(admin_pin_unhashed)],
       [username |-> "corecu_data", password |-> sha256(coop_pass_unhashed),
        role |-> "coop_uploader",
        cooperative_name |-> "CORECU Ltd",
        temp_password |-> coop_pass_unhashed,
        passphrase |-> Nothing, pin |-> Nothing],
       [username |-> "corecu_finance", password |-> sha256(coop_pass_unhashed),
        role |-> "coop_approver",
        cooperative_name |-> "CORECU Ltd",
        temp_password |-> coop_pass_unhashed,
        passphrase |-> sha256(coop_passphrase_unhashed),
        pin |-> sha256(coop_pin_unhashed)],
       [username |-> "lmcu_finance", password |-> sha256(coop_pass_unhashed),
        role |-> "coop_approver",
        cooperative_name |-> "LMCU Ltd",
        temp_password |-> coop_pass_unhashed,
        passphrase |-> sha256(coop_passphrase_unhashed),
        pin |-> sha256(coop_pin_unhashed)] >>

ADMIN == 1
CORECU_DATA == 2
CORECU_FINANCE == 3
LMCU_FINANCE == 4

\* cooperative_name.split()[0].upper()
coop_short_name(cooperative_name) ==
    CASE cooperative_name = "CORECU Ltd" -> "CORECU"
      [] cooperative_name = "LMCU Ltd" -> "LMCU"
      [] cooperative_name = "Farmers Payment Module Admin" -> "FARMERS"

(***************************************************************************)
(* Sequence helpers.                                                       *)
(***************************************************************************)
Indices(s) == 1..Len(s)

RECURSIVE SumAmounts(_)
SumAmounts(rows) ==
    IF rows = <<>> THEN 0 ELSE Head(rows).amount + SumAmounts(Tail(rows))

\* log_activity(user_id, action, details): one committed INSERT.
log_activity(logs, user_id, action, batch_id) ==
    Append(logs, [user_id |-> user_id,
                  cooperative_name |-> users[user_id].cooperative_name,
                  action |-> action, batch_id |-> batch_id])

(***************************************************************************)
(* Row ingestion: the parsed, column-validated table of an uploaded file.  *)
(***************************************************************************)
FarmerNames == <<"Asha", "Baraka", "Chiku", "Daudi">>

RawRow(i) ==
    [farmer_name |-> FarmerNames[i], bank_name |-> "NMB",
     account_number |-> "0150" , amount |-> 1000 * i,
     verification_status |-> "unverified", verification_reason |-> None]

UploadFiles == {[i \in 1..n |-> RawRow(i)] : n \in 1..MaxRows}

EditValues == {"corrected"}

\* simulate_bank_verification(df): every row is re-classified on its own,
\* verified with no reason or failed with a reason of the pool; the other
\* columns are kept.  The set of the tables the random draws can give.
VerificationOutcomes ==
    {[verification_status |-> "verified", verification_reason |-> None]}
    \cup {[verification_status |-> "failed", verification_reason |-> r] :
            r \in VERIFICATION_REASONS}

\* simulate_bank_verification leaving alone the rows that are failed.
simulate_bank_verification_failed_kept(df) ==
    {[i \in Indices(df) |->
        IF df[i].verification_status = "failed" THEN df[i]
        ELSE [df[i] EXCEPT !.verification_status = draw[i].verification_status,
                           !.verification_reason = draw[i].verification_reason]] :
     draw \in [Indices(df) -> VerificationOutcomes]}

simulate_bank_verification(df) ==
    {[i \in Indices(df) |->
        [df[i] EXCEPT !.verification_status = draw[i].verification_status,
                      !.verification_reason = draw[i].verification_reason]] :
     draw \in [Indices(df) -> VerificationOutcomes]}

\* HasFailed comparing with a status that is never stored.
HasFailedMisspelt(df) == \E i \in Indices(df) : df[i].verification_status = "Failed"

\* (df['verification_status'] == 'failed').any()
HasFailed(df) == \E i \in Indices(df) : df[i].verification_status = "failed"

(***************************************************************************)
(* Uploader side: upload, correction, re-verification, submission.         *)
(***************************************************************************)
session_data(c) == users[user_session[c]]

IdleSubmit == [pc |-> "idle", batch_id |-> 0, next_id |-> 0]

\* handle_uploader_upload: the parsed file is verified and shown.
handle_uploader_upload(c, df) ==
    /\ submit_req[c].pc = "idle"
    /\ \E verified_df \in simulate_bank_verification(df) :
          table_data' = [table_data EXCEPT ![c] = verified_df]
    /\ UNCHANGED <<db, user_session, password_change_alert, admin_create_user_alert, password_form, approver_details_modal, coop_alert, submit_req, auth_ui, payment_ui>>

\* create_verification_layout: of the columns of the editable table only
\* farmer_name and account_number are editable.
EditableColumns == {"farmer_name", "account_number"}

edit_cell(c, i, column, value) ==
    /\ submit_req[c].pc = "idle"
    /\ i \in Indices(table_data[c])
    /\ column \in EditableColumns
    /\ table_data[c][i][column] # value
    /\ table_data' = [table_data EXCEPT ![c][i][column] = value]
    /\ UNCHANGED <<db, user_session, password_change_alert, admin_create_user_alert, password_form, approver_details_modal, coop_alert, submit_req, auth_ui, payment_ui>>

\* handle_reverification: the whole current table is classified again.
handle_reverification(c) ==
    /\ submit_req[c].pc = "idle"
    /\ table_data[c] # <<>>
    /\ \E df_reverified \in simulate_bank_verification(table_data[c]) :
          table_data' = [table_data EXCEPT ![c] = df_reverified]
    /\ UNCHANGED <<db, user_session, password_change_alert, admin_create_user_alert, password_form, approver_details_modal, coop_alert, submit_req, auth_ui, payment_ui>>

\* The rows df_to_db.to_sql appends to farmer_payments: status and
\* failure_reason take the column defaults.
RowsToDb(df, batch_id) ==
    [i \in Indices(df) |->
        [batch_id |-> batch_id,
         farmer_name |-> df[i].farmer_name,
         bank_name |-> df[i].bank_name,
         account_number |-> df[i].account_number,
         amount |-> df[i].amount,
         status |-> "pending",
         verification_status |-> df[i].verification_status,
         verification_reason |-> df[i].verification_reason,
         failure_reason |-> None]]

\* NewBatch with the index of the last row of the frame as record_count.
NewBatchLastIndex(cooperative_id, df) ==
    [cooperative_id |-> cooperative_id, record_count |-> Len(df) - 1,
     total_amount |-> SumAmounts(df), status |-> "coop_submitted"]

NewBatch(cooperative_id, df) ==
    [cooperative_id |-> cooperative_id, record_count |-> Len(df),
     total_amount |-> SumAmounts(df), status |-> "coop_submitted"]

\* submit_to_approver, up to the first commit.  The role check and the
\* failed-row check return before the database is touched.  Otherwise the
\* batch and its rows are inserted; DataFrame.to_sql on a sqlite3 connection
\* runs its insert in pandas' run_transaction, which commits the connection,
\* so the batch and the rows are durable before create_invoice is entered.
submit_to_approver(c) ==
    /\ submit_req[c].pc = "idle"
    /\ table_data[c] # <<>>
    /\ IF session_data(c).role # "coop_uploader"
       THEN /\ coop_alert' = [coop_alert EXCEPT ![c] = "Access Denied."]
            /\ UNCHANGED <<db, submit_req>>
       ELSE IF HasFailed(table_data[c])
       THEN /\ coop_alert' = [coop_alert EXCEPT ![c] = "Submission Rejected"]
            /\ UNCHANGED <<db, submit_req>>
       ELSE /\ LET batch_id == Len(submission_batches) + 1 IN
               /\ submission_batches' =
                     Append(submission_batches,
                            NewBatch(user_session[c], table_data[c]))
               /\ farmer_payments' =
                     farmer_payments \o RowsToDb(table_data[c], batch_id)
               /\ submit_req' = [submit_req EXCEPT ![c] =
                     [pc |-> "count", batch_id |-> batch_id, next_id |-> 0]]
            /\ UNCHANGED <<users, invoices, payment_history, activity_logs,
                           coop_alert>>
    /\ UNCHANGED <<user_session, password_change_alert, admin_create_user_alert, password_form, approver_details_modal, table_data, auth_ui, payment_ui>>

\* create_invoice, the SELECT COUNT(*): read outside any transaction.
InvoicesOf(cooperative_name) ==
    {i \in Indices(invoices) : invoices[i].cooperative_name = cooperative_name}

create_invoice_count(c) ==
    /\ submit_req[c].pc = "count"
    /\ submit_req' = [submit_req EXCEPT ![c].pc = "insert",
          ![c].next_id = Cardinality(InvoicesOf(session_data(c).cooperative_name)) + 1]
    /\ UNCHANGED <<db, user_session, password_change_alert, admin_create_user_alert, password_form, approver_details_modal, table_data, coop_alert, auth_ui, payment_ui>>

\* The amount with the price of a row cut to whole dollars.
amount_usd_whole_dollars(row_count) ==
    row_count * (COST_PER_ROW_CENTS \div 100) * 100

\* amount_usd = row_count * COST_PER_ROW_USD, in cents.
amount_usd_cents(row_count) == row_count * COST_PER_ROW_CENTS

NewInvoice(batch_id, cooperative_name, row_count, next_id) ==
    [batch_id |-> batch_id, cooperative_name |-> cooperative_name,
     row_count |-> row_count,
     amount_usd_cents |-> amount_usd_cents(row_count),
     status |-> "unpaid",
     invoice_reference |-> <<coop_short_name(cooperative_name), next_id>>,
     payment_commission_usd |-> Nothing,
     payment_commission_reference |-> Nothing]

\* create_invoice, the INSERT, then conn.commit(), log_activity and the
\* success message.
create_invoice_insert(c) ==
    /\ submit_req[c].pc = "insert"
    /\ invoices' =
          Append(invoices,
                 NewInvoice(submit_req[c].batch_id,
                            session_data(c).cooperative_name,
                            submission_batches[submit_req[c].batch_id].record_count,
                            submit_req[c].next_id))
    /\ activity_logs' = log_activity(activity_logs, user_session[c],
                                     "Data Submission (Verified)",
                                     submit_req[c].batch_id)
    /\ coop_alert' = [coop_alert EXCEPT ![c] = "Successfully submitted"]
    /\ submit_req' = [submit_req EXCEPT ![c] = IdleSubmit]
    /\ UNCHANGED <<users, submission_batches, farmer_payments, payment_history,
                   user_session, password_change_alert, admin_create_user_alert, password_form, approver_details_modal, table_data, auth_ui, payment_ui>>

\* A storage error (or the death of the request) after the first commit:
\* "except Exception" reports it, what was committed stays.
submit_to_approver_error(c) ==
    /\ submit_req[c].pc # "idle"
    /\ coop_alert' = [coop_alert EXCEPT ![c] = "Database error"]
    /\ submit_req' = [submit_req EXCEPT ![c] = IdleSubmit]
    /\ UNCHANGED <<db, user_session, password_change_alert, admin_create_user_alert, password_form, approver_details_modal, table_data, auth_ui, payment_ui>>

\* A queue of every batch in coop_submitted, whoever submitted it.
render_coop_approval_queue_of_all(c) ==
    IF session_data(c).role # "coop_approver" THEN {}
    ELSE {b \in Indices(submission_batches) :
             submission_batches[b].status = "coop_submitted"}

\* render_coop_approval_queue: the batches the approver's queue shows, each
\* with a view-details-btn.  The queue of any other role is empty; the query
\* joins the batch with its submitter and keeps the batches in coop_submitted
\* whose submitter has the cooperative_name of the session.
render_coop_approval_queue(c) ==
    IF session_data(c).role # "coop_approver" THEN {}
    ELSE {b \in Indices(submission_batches) :
             /\ submission_batches[b].status = "coop_submitted"
             /\ users[submission_batches[b].cooperative_id].cooperative_name
                  = session_data(c).cooperative_name}

\* toggle_approver_details_modal, triggered by the view-details-btn of
\* batch_id: the modal gets the rows of the batch and the one payment-button
\* of the page, whose index is batch_id.  The admin has a modal of its own.
toggle_approver_details_modal(c, batch_id) ==
    /\ approver_details_modal' =
          [approver_details_modal EXCEPT ![c] =
              IF session_data(c).role = "coop_approver"
              THEN <<[batch_id |-> batch_id]>> ELSE Nothing]
    /\ UNCHANGED <<db, user_session, password_change_alert,
                   admin_create_user_alert, password_form, uploader_ui,
                   auth_ui, payment_ui>>

(***************************************************************************)
(* Authorization protocol: passphrase, then PIN.                           *)
(***************************************************************************)
\* check_user_passphrase that only looks the user up.
check_user_passphrase_any(user_id, passphrase_attempt) ==
    user_id \in Indices(users)

\* check_user_passphrase(user_id, passphrase_attempt)
check_user_passphrase(user_id, passphrase_attempt) ==
    IF user_id \notin Indices(users)
    THEN FALSE
    ELSE users[user_id].passphrase = sha256(passphrase_attempt)

\* check_user_pin comparing the stored hash with the digits themselves.
check_user_pin_unhashed(user_id, pin_attempt) ==
    IF user_id \notin Indices(users)
    THEN FALSE
    ELSE users[user_id].pin = pin_attempt

\* check_user_pin(user_id, pin_attempt)
check_user_pin(user_id, pin_attempt) ==
    IF user_id \notin Indices(users)
    THEN FALSE
    ELSE users[user_id].pin = sha256(pin_attempt)

\* trigger_auth_modal, triggered by a payment-button of batch batch_id:
\* the modal opens on step 1 and the batch is recorded.
trigger_auth_modal_payment_button(c, batch_id) ==
    /\ payment_auth_modal_is_open' = [payment_auth_modal_is_open EXCEPT ![c] = TRUE]
    /\ auth_modal_event' = [auth_modal_event EXCEPT ![c] = TRUE]
    /\ payment_authorization_store' =
          [payment_authorization_store EXCEPT ![c] = <<[batch_id |-> batch_id]>>]
    /\ payment_auth_step_store' = [payment_auth_step_store EXCEPT ![c] = "passphrase"]
    /\ auth_passphrase_input' = [auth_passphrase_input EXCEPT ![c] = ""]
    /\ auth_passphrase_alert' = [auth_passphrase_alert EXCEPT ![c] = None]
    /\ auth_pin_alert' = [auth_pin_alert EXCEPT ![c] = None]
    /\ UNCHANGED <<db, user_session, password_change_alert, admin_create_user_alert, password_form, approver_details_modal, uploader_ui, pin_input_store, payment_ui>>

\* trigger_auth_modal, triggered by auth-cancel-button: close and reset.
trigger_auth_modal_cancel(c) ==
    /\ payment_auth_modal_is_open' = [payment_auth_modal_is_open EXCEPT ![c] = FALSE]
    /\ auth_modal_event' = [auth_modal_event EXCEPT ![c] = TRUE]
    /\ payment_authorization_store' =
          [payment_authorization_store EXCEPT ![c] = Nothing]
    /\ payment_auth_step_store' = [payment_auth_step_store EXCEPT ![c] = "passphrase"]
    /\ auth_passphrase_input' = [auth_passphrase_input EXCEPT ![c] = ""]
    /\ auth_passphrase_alert' = [auth_passphrase_alert EXCEPT ![c] = None]
    /\ auth_pin_alert' = [auth_pin_alert EXCEPT ![c] = None]
    /\ UNCHANGED <<db, user_session, password_change_alert, admin_create_user_alert, password_form, approver_details_modal, uploader_ui, pin_input_store, payment_ui>>

\* The close button of the modal's header: the browser sets is_open.
close_auth_modal(c) ==
    /\ payment_auth_modal_is_open[c]
    /\ payment_auth_modal_is_open' = [payment_auth_modal_is_open EXCEPT ![c] = FALSE]
    /\ auth_modal_event' = [auth_modal_event EXCEPT ![c] = TRUE]
    /\ UNCHANGED <<db, user_session, password_change_alert, admin_create_user_alert, password_form, approver_details_modal, uploader_ui, payment_authorization_store,
                   payment_auth_step_store, pin_input_store,
                   auth_passphrase_input, auth_passphrase_alert,
                   auth_pin_alert, payment_ui>>

\* reset_auth_modal_on_close with the store and the PIN buffer left alone.
reset_auth_modal_on_close_styles_only(c) ==
    /\ auth_modal_event[c]
    /\ auth_modal_event' = [auth_modal_event EXCEPT ![c] = FALSE]
    /\ IF payment_auth_modal_is_open[c]
       THEN UNCHANGED <<auth_passphrase_input, auth_passphrase_alert,
                        auth_pin_alert>>
       ELSE /\ auth_passphrase_input' = [auth_passphrase_input EXCEPT ![c] = ""]
            /\ auth_passphrase_alert' = [auth_passphrase_alert EXCEPT ![c] = None]
            /\ auth_pin_alert' = [auth_pin_alert EXCEPT ![c] = None]
    /\ UNCHANGED <<db, user_session, password_change_alert, admin_create_user_alert, password_form, approver_details_modal, uploader_ui, payment_auth_modal_is_open,
                   payment_authorization_store, pin_input_store,
                   payment_auth_step_store, payment_ui>>

\* reset_auth_modal_on_close, fired by every write of is_open.
reset_auth_modal_on_close(c) ==
    /\ auth_modal_event[c]
    /\ auth_modal_event' = [auth_modal_event EXCEPT ![c] = FALSE]
    /\ IF payment_auth_modal_is_open[c]
       THEN UNCHANGED <<payment_authorization_store, pin_input_store,
                        auth_passphrase_input, auth_passphrase_alert,
                        auth_pin_alert>>
       ELSE /\ payment_authorization_store' =
                  [payment_authorization_store EXCEPT ![c] = Nothing]
            /\ pin_input_store' = [pin_input_store EXCEPT ![c] = <<>>]
            /\ auth_passphrase_input' = [auth_passphrase_input EXCEPT ![c] = ""]
            /\ auth_passphrase_alert' = [auth_passphrase_alert EXCEPT ![c] = None]
            /\ auth_pin_alert' = [auth_pin_alert EXCEPT ![c] = None]
    /\ UNCHANGED <<db, user_session, password_change_alert, admin_create_user_alert, password_form, approver_details_modal, uploader_ui, payment_auth_modal_is_open,
                   payment_auth_step_store, payment_ui>>

\* The user types into auth-passphrase-input (no callback runs).
type_passphrase(c, value) ==
    /\ auth_passphrase_input[c] # value
    /\ auth_passphrase_input' = [auth_passphrase_input EXCEPT ![c] = value]
    /\ UNCHANGED <<db, user_session, password_change_alert, admin_create_user_alert, password_form, approver_details_modal, uploader_ui, payment_auth_modal_is_open,
                   auth_modal_event, payment_authorization_store,
                   payment_auth_step_store, pin_input_store,
                   auth_passphrase_alert, auth_pin_alert, payment_ui>>

\* handle_passphrase_step
handle_passphrase_step(c) ==
    /\ IF check_user_passphrase(user_session[c], auth_passphrase_input[c])
       THEN /\ payment_auth_step_store' = [payment_auth_step_store EXCEPT ![c] = "pin"]
            /\ auth_passphrase_alert' = [auth_passphrase_alert EXCEPT ![c] = None]
       ELSE /\ payment_auth_step_store' =
                  [payment_auth_step_store EXCEPT ![c] = "passphrase"]
            /\ auth_passphrase_alert' = [auth_passphrase_alert EXCEPT ![c] =
                  "Invalid Passphrase. Please try again."]
    /\ UNCHANGED <<db, user_session, password_change_alert, admin_create_user_alert, password_form, approver_details_modal, uploader_ui, payment_auth_modal_is_open,
                   auth_modal_event, payment_authorization_store,
                   pin_input_store, auth_passphrase_input, auth_pin_alert,
                   payment_ui>>

\* update_pin_from_dialpad appending whatever the length of the buffer.
update_pin_from_dialpad_unbounded(c, button_value) ==
    /\ LET current_pin == pin_input_store[c]
           new_pin ==
               IF button_value = "C" THEN <<>>
               ELSE IF button_value = "<"
               THEN SubSeq(current_pin, 1, Len(current_pin) - 1)
               ELSE Append(current_pin, button_value)
       IN pin_input_store' = [pin_input_store EXCEPT ![c] = new_pin]
    /\ UNCHANGED <<db, user_session, password_change_alert, admin_create_user_alert, password_form, approver_details_modal, uploader_ui, payment_auth_modal_is_open,
                   auth_modal_event, payment_authorization_store,
                   payment_auth_step_store, auth_passphrase_input,
                   auth_passphrase_alert, auth_pin_alert, payment_ui>>

\* update_pin_from_dialpad
update_pin_from_dialpad(c, button_value) ==
    /\ LET current_pin == pin_input_store[c]
           new_pin ==
               IF button_value = "C" THEN <<>>
               ELSE IF button_value = "<"
               THEN SubSeq(current_pin, 1, Len(current_pin) - 1)
               ELSE IF Len(current_pin) < PIN_LENGTH
               THEN Append(current_pin, button_value)
               ELSE current_pin
       IN pin_input_store' = [pin_input_store EXCEPT ![c] = new_pin]
    /\ UNCHANGED <<db, user_session, password_change_alert, admin_create_user_alert, password_form, approver_details_modal, uploader_ui, payment_auth_modal_is_open,
                   auth_modal_event, payment_authorization_store,
                   payment_auth_step_store, auth_passphrase_input,
                   auth_passphrase_alert, auth_pin_alert, payment_ui>>

\* handle_pin_step without its UPDATE.
AuthorizeBatchSkipped(batches, batch_id) == batches

\* The UPDATE of handle_pin_step: guarded by the current status.
AuthorizeBatch(batches, batch_id) ==
    [i \in Indices(batches) |->
        IF i = batch_id /\ batches[i].status = "coop_submitted"
        THEN [batches[i] EXCEPT !.status = "pending_admin_approval"]
        ELSE batches[i]]

Authorized(logs) ==
    {i \in Indices(logs) : logs[i].action = "Payment Authorized"}

\* handle_pin_step.  Neither the step store nor the status of the batch is
\* read before the PIN is compared.
handle_pin_step(c) ==
    /\ payment_authorization_store[c] # Nothing
    /\ IF check_user_pin(user_session[c], pin_input_store[c])
       THEN LET batch_id == payment_authorization_store[c][1].batch_id
                updated == AuthorizeBatch(submission_batches, batch_id)
            IN
            /\ Cardinality(Authorized(activity_logs)) < MaxAuthorized
            /\ activity_logs' = log_activity(activity_logs, user_session[c],
                                             "Payment Authorized", batch_id)
            /\ submission_batches' = updated
            /\ batch_to_process' = [batch_to_process EXCEPT ![c] =
                  <<[id |-> batch_id, status |-> updated[batch_id].status]>>]
            /\ payment_auth_modal_is_open' =
                  [payment_auth_modal_is_open EXCEPT ![c] = FALSE]
            /\ auth_modal_event' = [auth_modal_event EXCEPT ![c] = TRUE]
            /\ auth_pin_alert' = [auth_pin_alert EXCEPT ![c] = None]
            /\ payment_modal_is_open' = [payment_modal_is_open EXCEPT ![c] = TRUE]
            /\ payment_modal_event' = [payment_modal_event EXCEPT ![c] = TRUE]
            /\ payment_interval_disabled' =
                  [payment_interval_disabled EXCEPT ![c] = FALSE]
            /\ pin_input_store' = [pin_input_store EXCEPT ![c] = <<>>]
       ELSE /\ auth_pin_alert' = [auth_pin_alert EXCEPT ![c] =
                  "Invalid PIN. Please try again."]
            /\ pin_input_store' = [pin_input_store EXCEPT ![c] = <<>>]
            /\ UNCHANGED <<activity_logs, submission_batches, batch_to_process,
                           payment_auth_modal_is_open, auth_modal_event,
                           payment_modal_is_open, payment_modal_event,
                           payment_interval_disabled>>
    /\ UNCHANGED <<users, farmer_payments, invoices, payment_history,
                   user_session, password_change_alert, admin_create_user_alert, password_form, approver_details_modal, uploader_ui, payment_authorization_store,
                   payment_auth_step_store, auth_passphrase_input,
                   auth_passphrase_alert, payment_close_button_disabled,
                   n_intervals, ipn_data_store, finalize_req>>

IdleFinalize == [pc |-> "idle", id |-> 0, status |-> None]

(***************************************************************************)
(* Payment pipeline: the timer ticks and the finalize step.                *)
(***************************************************************************)
BatchRows(b) == {i \in Indices(farmer_payments) : farmer_payments[i].batch_id = b}

\* random.random() < 0.20 and random.choice(reasons) of the admin recheck:
\* None is "not below 0.20".
RecheckDraws == {None} \cup RECHECK_REASONS

\* recheck_row drawing again for the rows that are failed already.
recheck_row_redrawn(row, draw) ==
    [row EXCEPT !.verification_status = IF draw # None THEN "failed" ELSE "verified",
                !.verification_reason = draw]

\* The verification_updates of one row of the admin recheck.
recheck_row(row, draw) ==
    IF row.verification_status = "verified" /\ draw # None
    THEN [row EXCEPT !.verification_status = "failed",
                     !.verification_reason = draw]
    ELSE IF row.verification_status = "failed"
    THEN [row EXCEPT !.verification_status = "failed",
                     !.verification_reason =
                         IF row.verification_reason # None
                         THEN row.verification_reason ELSE UNCORRECTED]
    ELSE [row EXCEPT !.verification_status = "verified",
                     !.verification_reason = None]

\* The reason of the verification, without the prefix.
VerificationFailedBare(v_reason) == v_reason

\* f"Verification Failed: {v_reason}"
VerificationFailed(v_reason) ==
    CASE v_reason = "Account Closed" -> "Verification Failed: Account Closed"
      [] v_reason = "Name Mismatch" -> "Verification Failed: Name Mismatch"
      [] v_reason = "Invalid Bank Code" -> "Verification Failed: Invalid Bank Code"
      [] v_reason = "System Check Failed" -> "Verification Failed: System Check Failed"
      [] v_reason = UNCORRECTED ->
            "Verification Failed: Pre-verified Failed (Uncorrected)"
      [] v_reason = None -> "Verification Failed: None"

\* random.random() < 0.95 and random.choice(reasons) of the settlement:
\* None is "below 0.95".
SettlementDraws == {None} \cup SETTLEMENT_REASONS

\* settle_row writing the amount that was paid: nothing for a failed row.
settle_row_failed_amount_cleared(row, draw) ==
    IF row.verification_status = "failed"
    THEN [row EXCEPT !.status = "failed", !.amount = 0,
                     !.failure_reason = VerificationFailed(row.verification_reason)]
    ELSE IF draw = None
    THEN [row EXCEPT !.status = "paid", !.failure_reason = None]
    ELSE [row EXCEPT !.status = "failed", !.amount = 0, !.failure_reason = draw]

\* settle_row with the random draw tested before the verification status.
settle_row_draw_first(row, draw) ==
    IF draw = None
    THEN [row EXCEPT !.status = "paid", !.failure_reason = None]
    ELSE IF row.verification_status = "failed"
    THEN [row EXCEPT !.status = "failed",
                     !.failure_reason = VerificationFailed(row.verification_reason)]
    ELSE [row EXCEPT !.status = "failed", !.failure_reason = draw]

\* The payments entry of one row of the settlement.
settle_row(row, draw) ==
    IF row.verification_status = "failed"
    THEN [row EXCEPT !.status = "failed",
                     !.failure_reason = VerificationFailed(row.verification_reason)]
    ELSE IF draw = None
    THEN [row EXCEPT !.status = "paid", !.failure_reason = None]
    ELSE [row EXCEPT !.status = "failed", !.failure_reason = draw]

\* The two executemany UPDATEs, over the rows of the batch.
RecheckRows(b, draws) ==
    [i \in Indices(farmer_payments) |->
        IF i \in BatchRows(b) THEN recheck_row(farmer_payments[i], draws[i])
        ELSE farmer_payments[i]]

SettleRows(b, draws) ==
    [i \in Indices(farmer_payments) |->
        IF i \in BatchRows(b) THEN settle_row(farmer_payments[i], draws[i])
        ELSE farmer_payments[i]]

\* UPDATE submission_batches SET status = 'verified', in the settlement too.
SetStatusVerified(batches, b, status) ==
    [i \in Indices(batches) |->
        IF i = b THEN [batches[i] EXCEPT !.status = "verified"] ELSE batches[i]]

\* UPDATE submission_batches SET status = ? without its WHERE clause.
SetStatusOfAll(batches, b, status) ==
    [i \in Indices(batches) |-> [batches[i] EXCEPT !.status = status]]

\* UPDATE submission_batches SET status = ? WHERE id = ?
SetStatus(batches, b, status) ==
    [i \in Indices(batches) |->
        IF i = b THEN [batches[i] EXCEPT !.status = status] ELSE batches[i]]

\* The commission with the rate cut to two decimals (0.02).
commission_usd_micros_rate_cut(total_amount_tsh) ==
    total_amount_tsh
        * (((PAYMENT_COMMISSION_RATE_PER_MILLE \div 10) * 10000)
              \div EXCHANGE_RATE_TSH_TO_USD)

\* create_payment_commission: commission_usd in millionths of a dollar
\* (the rate over the exchange rate is 10 millionths of a dollar for a
\* shilling, taken first so that the product stays within 32 bits);
\* the UPDATE touches the invoice of the batch, if there is one.
commission_usd_micros(total_amount_tsh) ==
    total_amount_tsh
        * ((PAYMENT_COMMISSION_RATE_PER_MILLE * 1000)
              \div EXCHANGE_RATE_TSH_TO_USD)

create_payment_commission(invs, batch_id, cooperative_name, total_amount_tsh) ==
    [i \in Indices(invs) |->
        IF invs[i].batch_id = batch_id
        THEN [invs[i] EXCEPT
                !.payment_commission_usd =
                    <<commission_usd_micros(total_amount_tsh)>>,
                !.payment_commission_reference =
                    <<"CP-PAY", coop_short_name(cooperative_name), batch_id>>]
        ELSE invs[i]]

\* handle_payment_processing, triggered by payment-modal.is_open.
handle_payment_processing_modal(c) ==
    /\ payment_modal_event[c]
    /\ payment_modal_event' = [payment_modal_event EXCEPT ![c] = FALSE]
    /\ IF payment_modal_is_open[c]
       THEN /\ payment_interval_disabled' =
                  [payment_interval_disabled EXCEPT ![c] = FALSE]
            /\ payment_close_button_disabled' =
                  [payment_close_button_disabled EXCEPT ![c] = TRUE]
       ELSE UNCHANGED <<payment_interval_disabled, payment_close_button_disabled>>
    /\ UNCHANGED <<db, user_session, password_change_alert, admin_create_user_alert, password_form, approver_details_modal, uploader_ui, auth_ui, batch_to_process,
                   payment_modal_is_open, n_intervals, ipn_data_store,
                   finalize_req>>

\* handle_payment_processing, triggered by a tick of payment-interval.  The
\* component counts the tick, then the callback runs with the new count:
\* below 4 it shows a phase message; from 4 on it runs the finalize step, of
\* which this action is the part up to the first commit (the admin recheck,
\* run when the status the browser holds is pending_admin_approval).
handle_payment_processing_interval(c) ==
    /\ ~payment_interval_disabled[c]
    /\ finalize_req[c].pc = "idle"
    /\ n_intervals[c] < MaxIntervals
    /\ n_intervals' = [n_intervals EXCEPT ![c] = n_intervals[c] + 1]
    /\ IF batch_to_process[c] = Nothing
       THEN UNCHANGED <<db, payment_modal_is_open, payment_interval_disabled,
                        payment_close_button_disabled, finalize_req>>
       ELSE IF n_intervals[c] + 1 < ANIMATION_TICKS
       THEN /\ payment_modal_is_open' = [payment_modal_is_open EXCEPT ![c] = TRUE]
            /\ payment_interval_disabled' =
                  [payment_interval_disabled EXCEPT ![c] = FALSE]
            /\ payment_close_button_disabled' =
                  [payment_close_button_disabled EXCEPT ![c] = TRUE]
            /\ UNCHANGED <<db, finalize_req>>
       ELSE LET batch_id_num == batch_to_process[c][1].id
                batch_status == batch_to_process[c][1].status
            IN
            /\ finalize_req' = [finalize_req EXCEPT ![c] =
                  [pc |-> "settle", id |-> batch_id_num, status |-> batch_status]]
            /\ IF batch_status = "pending_admin_approval"
               THEN /\ \E draws \in [BatchRows(batch_id_num) -> RecheckDraws] :
                          farmer_payments' = RecheckRows(batch_id_num, draws)
                    /\ submission_batches' =
                          SetStatus(submission_batches, batch_id_num, "verified")
                    /\ activity_logs' = log_activity(activity_logs, user_session[c],
                                                     "Account Verification",
                                                     batch_id_num)
                    /\ UNCHANGED <<users, invoices, payment_history>>
               ELSE UNCHANGED db
            /\ UNCHANGED <<payment_modal_is_open, payment_interval_disabled,
                           payment_close_button_disabled>>
    /\ UNCHANGED <<user_session, password_change_alert, admin_create_user_alert, password_form, approver_details_modal, uploader_ui, auth_ui, batch_to_process,
                   payment_modal_event, ipn_data_store>>

\* handle_payment_processing, the rest of the finalize step: one
\* transaction (processed, settlement, payment history, commission), then
\* log_activity and the outputs of the callback.
handle_payment_processing_settle(c) ==
    /\ finalize_req[c].pc = "settle"
    /\ LET b == finalize_req[c].id
           batch_info == submission_batches[b]
           coop_name == users[batch_info.cooperative_id].cooperative_name
       IN
       /\ \E draws \in [BatchRows(b) -> SettlementDraws] :
             /\ farmer_payments' = SettleRows(b, draws)
             /\ ipn_data_store' = [ipn_data_store EXCEPT ![c] =
                   <<[coop |-> coop_name,
                      success |-> Cardinality({i \in BatchRows(b) :
                                     farmer_payments'[i].status = "paid"}),
                      failed |-> Cardinality({i \in BatchRows(b) :
                                     farmer_payments'[i].status = "failed"}),
                      total |-> batch_info.record_count]>>]
       /\ submission_batches' = SetStatus(submission_batches, b, "processed")
       /\ payment_history' =
             Append(payment_history,
                    [batch_id |-> b, cooperative_name |-> coop_name,
                     record_count |-> batch_info.record_count,
                     total_amount |-> batch_info.total_amount])
       /\ invoices' = create_payment_commission(invoices, b, coop_name,
                                                batch_info.total_amount)
       /\ activity_logs' = log_activity(activity_logs, user_session[c],
                                        "Payment Processed", b)
    /\ payment_modal_is_open' = [payment_modal_is_open EXCEPT ![c] = TRUE]
    /\ payment_interval_disabled' = [payment_interval_disabled EXCEPT ![c] = TRUE]
    /\ payment_close_button_disabled' =
          [payment_close_button_disabled EXCEPT ![c] = FALSE]
    /\ batch_to_process' = [batch_to_process EXCEPT ![c] = Nothing]
    /\ finalize_req' = [finalize_req EXCEPT ![c] = IdleFinalize]
    /\ UNCHANGED <<users, user_session, password_change_alert, admin_create_user_alert, password_form, approver_details_modal, uploader_ui, auth_ui,
                   payment_modal_event, n_intervals>>

\* A storage error (or the death of the request) between the two commits
\* of the finalize step: the callback raises, no output is written, what
\* the first commit wrote stays.
handle_payment_processing_error(c) ==
    /\ finalize_req[c].pc = "settle"
    /\ finalize_req' = [finalize_req EXCEPT ![c] = IdleFinalize]
    /\ UNCHANGED <<db, user_session, password_change_alert, admin_create_user_alert, password_form, approver_details_modal, uploader_ui, auth_ui, batch_to_process,
                   payment_modal_is_open, payment_modal_event,
                   payment_interval_disabled, payment_close_button_disabled,
                   n_intervals, ipn_data_store>>

\* handle_payment_processing, triggered by payment-close-button.
handle_payment_processing_close(c) ==
    /\ payment_modal_is_open[c]
    /\ payment_modal_is_open' = [payment_modal_is_open EXCEPT ![c] = FALSE]
    /\ payment_interval_disabled' = [payment_interval_disabled EXCEPT ![c] = TRUE]
    /\ payment_close_button_disabled' =
          [payment_close_button_disabled EXCEPT ![c] = TRUE]
    /\ batch_to_process' = [batch_to_process EXCEPT ![c] = Nothing]
    /\ UNCHANGED <<db, user_session, password_change_alert, admin_create_user_alert, password_form, approver_details_modal, uploader_ui, auth_ui, payment_modal_event,
                   n_intervals, ipn_data_store, finalize_req>>

(***************************************************************************)
(* Credential rotation and provisioning.                                   *)
(***************************************************************************)
\* len(text), for the texts typed into the forms.
len(text) ==
    CASE text = "" -> 0
      [] text = "five5" -> 5
      [] text = "sixsix" -> 6
      [] text = "seven77" -> 7
      [] text = "eight888" -> 8
      [] text = "cooppass" -> 8
      [] text = "adminpass" -> 9

DECIMAL_DIGITS == {"0", "1", "2", "3", "4", "5", "6", "7", "8", "9"}

\* isdigit with only its test for the empty text.
isdigit_nonempty(text) == text # <<>>

\* str.isdigit(): a text that is not empty and has decimal digits only.
isdigit(text) == text # <<>> /\ \A k \in Indices(text) : text[k] \in DECIMAL_DIGITS

\* The validation without the comparison of the password with its
\* confirmation.
validate_password_change_unconfirmed(role, new_pass, confirm_pass, new_passphrase, new_pin) ==
    IF role \notin {"coop_approver", "admin"} THEN "Access Denied."
    ELSE IF \/ new_pass \in {None, ""} \/ confirm_pass \in {None, ""}
            \/ new_passphrase \in {None, ""} \/ new_pin = <<>>
    THEN "All fields are required."
    ELSE IF len(new_pass) < 6 THEN "Password must be at least 6 characters."
    ELSE IF len(new_passphrase) < 8
    THEN "Passphrase must be at least 8 characters."
    ELSE IF Len(new_pin) # 6 \/ ~isdigit(new_pin)
    THEN "PIN must be exactly 6 digits."
    ELSE None

\* The validation without the check of the role.
validate_password_change_any_role(role, new_pass, confirm_pass, new_passphrase, new_pin) ==
    IF \/ new_pass \in {None, ""} \/ confirm_pass \in {None, ""}
       \/ new_passphrase \in {None, ""} \/ new_pin = <<>>
    THEN "All fields are required."
    ELSE IF new_pass # confirm_pass THEN "Passwords do not match."
    ELSE IF len(new_pass) < 6 THEN "Password must be at least 6 characters."
    ELSE IF len(new_passphrase) < 8
    THEN "Passphrase must be at least 8 characters."
    ELSE IF Len(new_pin) # 6 \/ ~isdigit(new_pin)
    THEN "PIN must be exactly 6 digits."
    ELSE None

\* handle_password_change, the role check and the validation: the alert of
\* the first test that fails, None if none does.  A field left alone is
\* None, a field emptied is ""; the PIN is the sequence of its characters.
validate_password_change(role, new_pass, confirm_pass, new_passphrase, new_pin) ==
    IF role \notin {"coop_approver", "admin"} THEN "Access Denied."
    ELSE IF \/ new_pass \in {None, ""} \/ confirm_pass \in {None, ""}
            \/ new_passphrase \in {None, ""} \/ new_pin = <<>>
    THEN "All fields are required."
    ELSE IF new_pass # confirm_pass THEN "Passwords do not match."
    ELSE IF len(new_pass) < 6 THEN "Password must be at least 6 characters."
    ELSE IF len(new_passphrase) < 8
    THEN "Passphrase must be at least 8 characters."
    ELSE IF Len(new_pin) # 6 \/ ~isdigit(new_pin)
    THEN "PIN must be exactly 6 digits."
    ELSE None

\* update_approver_credentials without its WHERE clause.
update_approver_credentials_of_all(user_id, new_password, new_passphrase, new_pin) ==
    [i \in Indices(users) |->
        [users[i] EXCEPT !.password = sha256(new_password),
                         !.passphrase = sha256(new_passphrase),
                         !.pin = sha256(new_pin),
                         !.temp_password = None]]

\* update_approver_credentials(user_id, new_password, new_passphrase, new_pin)
update_approver_credentials(user_id, new_password, new_passphrase, new_pin) ==
    [i \in Indices(users) |->
        IF i = user_id
        THEN [users[i] EXCEPT !.password = sha256(new_password),
                              !.passphrase = sha256(new_passphrase),
                              !.pin = sha256(new_pin),
                              !.temp_password = None]
        ELSE users[i]]

\* The four inputs of the password modal, as the page has them: a field
\* left alone is None, a field emptied is "", the PIN is the sequence of
\* its characters (none for a PIN left alone or emptied).
EmptyForm ==
    [new_password |-> None, confirm_password |-> None,
     new_passphrase |-> None, new_pin |-> <<>>]

\* The user fills in the password modal (no callback runs).
fill_password_form(c, form) ==
    /\ password_form[c] # form
    /\ password_form' = [password_form EXCEPT ![c] = form]
    /\ UNCHANGED <<db, user_session, password_change_alert,
                   admin_create_user_alert, approver_details_modal,
                   uploader_ui, auth_ui, payment_ui>>

\* handle_password_change: a request that fails a test returns its alert
\* before anything is written; otherwise the credentials are updated and
\* committed, log_activity adds its entry, and the approver (not the admin)
\* gets the success message in coop-alert.  The inputs are left as typed.
handle_password_change(c) ==
    /\ LET new_pass == password_form[c].new_password
           confirm_pass == password_form[c].confirm_password
           new_passphrase == password_form[c].new_passphrase
           new_pin == password_form[c].new_pin
           alert == validate_password_change(session_data(c).role, new_pass,
                        confirm_pass, new_passphrase, new_pin)
       IN IF alert # None
          THEN /\ password_change_alert' =
                     [password_change_alert EXCEPT ![c] = alert]
               /\ UNCHANGED <<users, activity_logs, coop_alert>>
          ELSE /\ users' = update_approver_credentials(user_session[c], new_pass,
                                                       new_passphrase, new_pin)
               /\ activity_logs' = log_activity(activity_logs, user_session[c],
                                                "Password Change", 0)
               /\ password_change_alert' =
                     [password_change_alert EXCEPT ![c] = None]
               /\ coop_alert' =
                     IF session_data(c).role = "admin" THEN coop_alert
                     ELSE [coop_alert EXCEPT ![c] = "Success: Credentials changed"]
    /\ UNCHANGED <<submission_batches, farmer_payments, invoices,
                   payment_history, user_session, admin_create_user_alert,
                   password_form, approver_details_modal, table_data, submit_req, auth_ui, payment_ui>>

Usernames(table) == {table[i].username : i \in Indices(table)}

\* The row create_coop_user inserts: the password is the hash of the
\* temporary password, which is kept in clear; an approver gets the hashes
\* of the default passphrase and PIN, any other role none.
new_user(username, coop_name, role, random_seed) ==
    LET temp_password == coop_short_name(coop_name) \o random_seed IN
    [username |-> username, password |-> sha256(temp_password),
     role |-> role, cooperative_name |-> coop_name,
     temp_password |-> temp_password,
     passphrase |-> IF role = "coop_approver" THEN sha256("cooppass") ELSE Nothing,
     pin |-> IF role = "coop_approver"
             THEN sha256(<<"1", "2", "3", "4", "5", "6">>) ELSE Nothing]

\* create_coop_user: the role check, the required fields and the test for a
\* taken username return before the INSERT.
create_coop_user(c, username, coop_name, role, random_seed) ==
    /\ IF session_data(c).role \notin {"admin", "coop_approver"}
       THEN /\ admin_create_user_alert' =
                  [admin_create_user_alert EXCEPT ![c] = "Access Denied."]
            /\ UNCHANGED <<users, activity_logs>>
       ELSE IF username = None \/ coop_name = None \/ role = None
       THEN /\ admin_create_user_alert' = [admin_create_user_alert EXCEPT ![c] =
                  "Username, Cooperative, and Role are required."]
            /\ UNCHANGED <<users, activity_logs>>
       ELSE IF username \in Usernames(users)
       THEN /\ admin_create_user_alert' = [admin_create_user_alert EXCEPT ![c] =
                  "Username is already taken."]
            /\ UNCHANGED <<users, activity_logs>>
       ELSE /\ users' = Append(users, new_user(username, coop_name, role, random_seed))
            /\ activity_logs' = log_activity(activity_logs, user_session[c],
                                             "User Created", 0)
            /\ admin_create_user_alert' = [admin_create_user_alert EXCEPT ![c] =
                  "Successfully created user"]
    /\ UNCHANGED <<submission_batches, farmer_payments, invoices,
                   payment_history, user_session, password_change_alert,
                   password_form, approver_details_modal, uploader_ui, auth_ui, payment_ui>>

(***************************************************************************)
(* Initial states.  The database is the one init_db builds; the browsers   *)
(* are logged in (user-session holds the id of a user) and show the page   *)
(* of app.layout with every store at its declared initial value.           *)
(***************************************************************************)
InitDb ==
    /\ users = init_db_users
    /\ submission_batches = <<>>
    /\ farmer_payments = <<>>
    /\ invoices = <<>>
    /\ payment_history = <<>>
    /\ activity_logs = <<>>

InitBrowsers ==
    /\ table_data = [c \in Clients |-> <<>>]
    /\ coop_alert = [c \in Clients |-> ""]
    /\ password_change_alert = [c \in Clients |-> None]
    /\ admin_create_user_alert = [c \in Clients |-> None]
    /\ password_form = [c \in Clients |-> EmptyForm]
    /\ approver_details_modal = [c \in Clients |-> Nothing]
    /\ submit_req = [c \in Clients |-> IdleSubmit]
    /\ payment_auth_modal_is_open = [c \in Clients |-> FALSE]
    /\ auth_modal_event = [c \in Clients |-> FALSE]
    /\ payment_authorization_store = [c \in Clients |-> Nothing]
    /\ payment_auth_step_store = [c \in Clients |-> "passphrase"]
    /\ pin_input_store = [c \in Clients |-> <<>>]
    /\ auth_passphrase_input = [c \in Clients |-> ""]
    /\ auth_passphrase_alert = [c \in Clients |-> None]
    /\ auth_pin_alert = [c \in Clients |-> None]
    /\ batch_to_process = [c \in Clients |-> Nothing]
    /\ payment_modal_is_open = [c \in Clients |-> FALSE]
    /\ payment_modal_event = [c \in Clients |-> FALSE]
    /\ payment_interval_disabled = [c \in Clients |-> TRUE]
    /\ payment_close_button_disabled = [c \in Clients |-> TRUE]
    /\ n_intervals = [c \in Clients |-> 0]
    /\ ipn_data_store = [c \in Clients |-> Nothing]
    /\ finalize_req = [c \in Clients |-> IdleFinalize]

\* The table of a file whose rows all passed the uploader's verification.
VerifiedFile(n) ==
    [i \in 1..n |-> [RawRow(i) EXCEPT !.verification_status = "verified"]]

\* The database after the CORECU uploader submitted nb files of MaxRows
\* verified rows, one after the other.
InitSubmitted(nb) ==
    /\ users = init_db_users
    /\ submission_batches =
          [b \in 1..nb |-> NewBatch(CORECU_DATA, VerifiedFile(MaxRows))]
    /\ farmer_payments =
          [k \in 1..(nb * MaxRows) |->
              RowsToDb(VerifiedFile(MaxRows), ((k - 1) \div MaxRows) + 1)
                  [((k - 1) % MaxRows) + 1]]
    /\ invoices =
          [b \in 1..nb |-> NewInvoice(b, "CORECU Ltd", MaxRows, b)]
    /\ payment_history = <<>>
    /\ activity_logs =
          [b \in 1..nb |->
              [user_id |-> CORECU_DATA, cooperative_name |-> "CORECU Ltd",
               action |-> "Data Submission (Verified)", batch_id |-> b]]

(***************************************************************************)
(* The uploader's events, for the browsers of the set C.                   *)
(***************************************************************************)
Upload(C) == \E c \in C, df \in UploadFiles : handle_uploader_upload(c, df)
Edit(C, columns) ==
    \E c \in C, i \in 1..MaxRows, column \in columns,
       value \in EditValues : edit_cell(c, i, column, value)
Reverify(C) == \E c \in C : handle_reverification(c)
\* The browsers of C submit MaxSubmissions files each, in total; a
\* submission that is turned down does not count.
Submit(C) ==
    \E c \in C :
        /\ \/ Len(submission_batches) < MaxSubmissions * Cardinality(C)
           \/ HasFailed(table_data[c])
        /\ submit_to_approver(c)
InvoiceCount(C) == \E c \in C : create_invoice_count(c)
InvoiceInsert(C) == \E c \in C : create_invoice_insert(c)
SubmitError(C) == \E c \in C : submit_to_approver_error(c)

(***************************************************************************)
(* SpecUpload: one browser of the CORECU uploader uploads, corrects,       *)
(* re-verifies and submits.                                                *)
(***************************************************************************)
InitUpload ==
    /\ InitDb
    /\ InitBrowsers
    /\ user_session = [c \in Clients |->
                         IF c = "c1" THEN CORECU_DATA ELSE CORECU_FINANCE]

NextUpload ==
    \/ Upload({"c1"})
    \/ Edit({"c1"}, {"farmer_name"})
    \/ Reverify({"c1"})
    \/ Submit({"c1"})
    \/ InvoiceCount({"c1"})
    \/ InvoiceInsert({"c1"})
    \/ SubmitError({"c1"})

SpecUpload == InitUpload /\ [][NextUpload]_vars

(***************************************************************************)
(* SpecSubmit: two browsers of the CORECU uploader upload and submit at    *)
(* the same time.                                                          *)
(***************************************************************************)
InitSubmit ==
    /\ InitDb
    /\ InitBrowsers
    /\ user_session = [c \in Clients |-> CORECU_DATA]

NextSubmit ==
    \/ Upload(Clients)
    \/ Reverify(Clients)
    \/ Submit(Clients)
    \/ InvoiceCount(Clients)
    \/ InvoiceInsert(Clients)
    \/ SubmitError(Clients)

SpecSubmit == InitSubmit /\ [][NextSubmit]_vars

(***************************************************************************)
(* The approver's events, for the browsers of the set C.  A callback that  *)
(* an output of another callback triggers is dispatched by the browser as  *)
(* soon as that output is written, before the next event of its user.      *)
(* The user acts on what the page shows: a session event needs the open    *)
(* authorization modal, a new session a page no modal covers, and the      *)
(* close button of the progress modal is used once it is enabled.          *)
(***************************************************************************)
Quiet(c) == ~auth_modal_event[c] /\ ~payment_modal_event[c]

PinPadButtons == {"1", "2", "3", "4", "5", "6", "7", "8", "9", "C", "0", "<"}

IsPrefix(s, t) == Len(s) <= Len(t) /\ SubSeq(t, 1, Len(s)) = s

\* The user is typing one of the PINs of the set attempts.
Typing(current_pin, button_value, attempts) ==
    \/ button_value \in {"C", "<"}
    \/ Len(current_pin) >= PIN_LENGTH
    \/ \E pin \in attempts : IsPrefix(Append(current_pin, button_value), pin)

StartAuthorization(C) ==
    \E c \in C, batch_id \in Indices(submission_batches) :
        /\ Quiet(c)
        /\ ~payment_auth_modal_is_open[c]
        /\ ~payment_modal_is_open[c]
        /\ trigger_auth_modal_payment_button(c, batch_id)

CancelAuthorization(C) ==
    \E c \in C :
        /\ Quiet(c)
        /\ payment_auth_modal_is_open[c]
        /\ trigger_auth_modal_cancel(c)

CloseAuthorization(C) == \E c \in C : Quiet(c) /\ close_auth_modal(c)

ResetOnClose(C) == \E c \in C : reset_auth_modal_on_close(c)

TypePassphrase(C, attempts) ==
    \E c \in C, value \in attempts :
        /\ Quiet(c)
        /\ payment_auth_modal_is_open[c]
        /\ type_passphrase(c, value)

SubmitPassphrase(C) ==
    \E c \in C :
        /\ Quiet(c)
        /\ payment_auth_modal_is_open[c]
        /\ handle_passphrase_step(c)

PressPinPad(C, attempts) ==
    \E c \in C, button_value \in PinPadButtons :
        /\ Quiet(c)
        /\ payment_auth_modal_is_open[c]
        /\ Typing(pin_input_store[c], button_value, attempts)
        /\ update_pin_from_dialpad(c, button_value)

SubmitPin(C) ==
    \E c \in C :
        /\ Quiet(c)
        /\ payment_auth_modal_is_open[c]
        /\ handle_pin_step(c)

PaymentModalOpened(C) == \E c \in C : handle_payment_processing_modal(c)

Tick(C) == \E c \in C : Quiet(c) /\ handle_payment_processing_interval(c)

Settle(C) == \E c \in C : handle_payment_processing_settle(c)

FinalizeError(C) == \E c \in C : handle_payment_processing_error(c)

ClosePayment(C) ==
    \E c \in C :
        /\ Quiet(c)
        /\ ~payment_close_button_disabled[c]
        /\ handle_payment_processing_close(c)

PassphraseAttempts == {coop_passphrase_unhashed, admin_passphrase_unhashed}
PinAttempts == {coop_pin_unhashed, admin_pin_unhashed}

(***************************************************************************)
(* SpecAuth: one browser of the CORECU approver, one submitted batch; the  *)
(* user types the right or a wrong passphrase and PIN.                     *)
(***************************************************************************)
InitAuth ==
    /\ InitSubmitted(1)
    /\ InitBrowsers
    /\ user_session = [c \in Clients |-> CORECU_FINANCE]

NextAuth ==
    \/ StartAuthorization({"c1"})
    \/ CancelAuthorization({"c1"})
    \/ CloseAuthorization({"c1"})
    \/ ResetOnClose({"c1"})
    \/ TypePassphrase({"c1"}, PassphraseAttempts)
    \/ SubmitPassphrase({"c1"})
    \/ PressPinPad({"c1"}, PinAttempts)
    \/ SubmitPin({"c1"})
    \/ PaymentModalOpened({"c1"})
    \/ Tick({"c1"})
    \/ Settle({"c1"})
    \/ FinalizeError({"c1"})
    \/ ClosePayment({"c1"})

SpecAuth == InitAuth /\ [][NextAuth]_vars

(***************************************************************************)
(* Spec: two browsers of the CORECU approver and up to MaxBatches          *)
(* submitted batches; each browser authorizes and drives a pipeline, whose *)
(* progress modal it leaves open.                                          *)
(***************************************************************************)
Init ==
    /\ \E nb \in 1..MaxBatches : InitSubmitted(nb)
    /\ InitBrowsers
    /\ user_session = [c \in Clients |-> CORECU_FINANCE]

Next ==
    \/ StartAuthorization(Clients)
    \/ CancelAuthorization(Clients)
    \/ ResetOnClose(Clients)
    \/ TypePassphrase(Clients, {coop_passphrase_unhashed})
    \/ SubmitPassphrase(Clients)
    \/ PressPinPad(Clients, {coop_pin_unhashed})
    \/ SubmitPin(Clients)
    \/ PaymentModalOpened(Clients)
    \/ Tick(Clients)
    \/ Settle(Clients)
    \/ FinalizeError(Clients)

Spec == Init /\ [][Next]_vars

(***************************************************************************)
(* SpecClose: one browser of the CORECU approver, one submitted batch,     *)
(* the right passphrase and PIN.  The close event of the progress modal    *)
(* reaches handle_payment_processing whatever the button shows: the        *)
(* callback does not look at the disabled property, which the page alone   *)
(* keeps (the button is rendered disabled while the ticks run, so this     *)
(* event is one that n_clicks receives otherwise than from a click).       *)
(***************************************************************************)
CloseRequest(C) == \E c \in C : Quiet(c) /\ handle_payment_processing_close(c)

InitClose ==
    /\ InitSubmitted(1)
    /\ InitBrowsers
    /\ user_session = [c \in Clients |-> CORECU_FINANCE]

NextClose ==
    \/ StartAuthorization({"c1"})
    \/ CancelAuthorization({"c1"})
    \/ ResetOnClose({"c1"})
    \/ TypePassphrase({"c1"}, {coop_passphrase_unhashed})
    \/ SubmitPassphrase({"c1"})
    \/ PressPinPad({"c1"}, {coop_pin_unhashed})
    \/ SubmitPin({"c1"})
    \/ PaymentModalOpened({"c1"})
    \/ Tick({"c1"})
    \/ Settle({"c1"})
    \/ FinalizeError({"c1"})
    \/ CloseRequest({"c1"})

SpecClose == InitClose /\ [][NextClose]_vars

(***************************************************************************)
(* SpecApart: two browsers of the CORECU approver, each with a batch of    *)
(* its own: the first works on the first submitted batch, the second on    *)
(* the last; the right passphrase and PIN, no cancellation and no storage  *)
(* error.                                                                  *)
(***************************************************************************)
StartAuthorizationFor(c, batch_id) ==
    /\ Quiet(c)
    /\ ~payment_auth_modal_is_open[c]
    /\ ~payment_modal_is_open[c]
    /\ trigger_auth_modal_payment_button(c, batch_id)

InitApart ==
    /\ InitSubmitted(MaxBatches)
    /\ InitBrowsers
    /\ user_session = [c \in Clients |-> CORECU_FINANCE]

NextApart ==
    \/ StartAuthorizationFor("c1", 1)
    \/ StartAuthorizationFor("c2", MaxBatches)
    \/ ResetOnClose(Clients)
    \/ TypePassphrase(Clients, {coop_passphrase_unhashed})
    \/ SubmitPassphrase(Clients)
    \/ PressPinPad(Clients, {coop_pin_unhashed})
    \/ SubmitPin(Clients)
    \/ PaymentModalOpened(Clients)
    \/ Tick(Clients)
    \/ Settle(Clients)

SpecApart == InitApart /\ [][NextApart]_vars

(***************************************************************************)
(* SpecRuns: one browser of the CORECU approver and MaxBatches submitted   *)
(* batches; the user authorizes a batch with the right passphrase and PIN, *)
(* watches its pipeline, closes the progress modal and goes on with        *)
(* another batch on the same page.                                         *)
(***************************************************************************)
InitRuns ==
    /\ InitSubmitted(MaxBatches)
    /\ InitBrowsers
    /\ user_session = [c \in Clients |-> CORECU_FINANCE]

NextRuns ==
    \/ StartAuthorization({"c1"})
    \/ ResetOnClose({"c1"})
    \/ TypePassphrase({"c1"}, {coop_passphrase_unhashed})
    \/ SubmitPassphrase({"c1"})
    \/ PressPinPad({"c1"}, {coop_pin_unhashed})
    \/ SubmitPin({"c1"})
    \/ PaymentModalOpened({"c1"})
    \/ Tick({"c1"})
    \/ Settle({"c1"})
    \/ ClosePayment({"c1"})

SpecRuns == InitRuns /\ [][NextRuns]_vars

(***************************************************************************)
(* The credential forms, for the browsers of the set C: they are used      *)
(* while no modal covers the page.                                         *)
(***************************************************************************)
new_pin_unhashed == <<"6", "5", "4", "3", "2", "1">>

\* A form that passes every test.
ValidForm ==
    [new_password |-> "sixsix", confirm_password |-> "sixsix",
     new_passphrase |-> "eight888", new_pin |-> new_pin_unhashed]

\* The forms with one fault each: a field left alone or emptied, a
\* confirmation that differs, a password of 5, a passphrase of 7, a PIN of
\* 5 digits, and a PIN of 6 characters that are not all digits.
FaultyForms ==
    {[ValidForm EXCEPT !.new_password = None],
     [ValidForm EXCEPT !.new_passphrase = ""],
     [ValidForm EXCEPT !.new_pin = <<>>],
     [ValidForm EXCEPT !.confirm_password = "five5"],
     [ValidForm EXCEPT !.new_password = "five5", !.confirm_password = "five5"],
     [ValidForm EXCEPT !.new_passphrase = "seven77"],
     [ValidForm EXCEPT !.new_pin = <<"6", "5", "4", "3", "2">>],
     [ValidForm EXCEPT !.new_pin = <<"6", "5", "4", "3", "2", "x">>]}

\* The forms whose fault is in the PIN.
PinFaultyForms == {form \in FaultyForms : form.new_pin # new_pin_unhashed}

Rotations(logs) == {i \in Indices(logs) : logs[i].action = "Password Change"}

FillPasswordForm(C, forms) ==
    \E c \in C, form \in forms :
        /\ Quiet(c)
        /\ ~payment_auth_modal_is_open[c]
        /\ ~payment_modal_is_open[c]
        /\ fill_password_form(c, form)

ChangePassword(C) ==
    \E c \in C :
        /\ Quiet(c)
        /\ ~payment_auth_modal_is_open[c]
        /\ ~payment_modal_is_open[c]
        /\ \/ Cardinality(Rotations(activity_logs)) < MaxRotations
           \/ validate_password_change(session_data(c).role,
                  password_form[c].new_password,
                  password_form[c].confirm_password,
                  password_form[c].new_passphrase,
                  password_form[c].new_pin) # None
        /\ handle_password_change(c)

NewUsernames == {None, "corecu_data", "corecu_clerk"}
NewRoles == {None, "coop_uploader", "coop_approver"}
RandomSeeds == {"10000"}

\* The cooperative of the form is the one of the session, for a user that
\* is not the admin (the field is filled in and disabled).
CreateUser(C) ==
    \E c \in C, username \in NewUsernames, role \in NewRoles,
       random_seed \in RandomSeeds :
        /\ Quiet(c)
        /\ ~payment_auth_modal_is_open[c]
        /\ ~payment_modal_is_open[c]
        /\ create_coop_user(c, username, session_data(c).cooperative_name,
                            role, random_seed)

(***************************************************************************)
(* SpecRotate: the first browser is the CORECU approver, who authorizes    *)
(* the submitted batch with the old or the new passphrase and PIN; the     *)
(* second browser, of the same approver or of the CORECU uploader, sends   *)
(* credential changes meanwhile.  The pipeline is not followed.            *)
(***************************************************************************)
InitRotate ==
    /\ InitSubmitted(1)
    /\ InitBrowsers
    /\ \E other \in {CORECU_FINANCE, CORECU_DATA} :
          user_session = [c \in Clients |->
                             IF c = "c1" THEN CORECU_FINANCE ELSE other]

NextRotate ==
    \/ StartAuthorization({"c1"})
    \/ ResetOnClose({"c1"})
    \/ TypePassphrase({"c1"}, {coop_passphrase_unhashed, "eight888"})
    \/ SubmitPassphrase({"c1"})
    \/ PressPinPad({"c1"}, {coop_pin_unhashed, new_pin_unhashed})
    \/ SubmitPin({"c1"})
    \/ PaymentModalOpened({"c1"})
    \/ FillPasswordForm({"c2"}, {ValidForm} \cup FaultyForms)
    \/ ChangePassword({"c2"})

SpecRotate == InitRotate /\ [][NextRotate]_vars

(***************************************************************************)
(* SpecProvision: the browsers of the CORECU approver and of the CORECU    *)
(* uploader both send new users and credential changes; the approver       *)
(* opens the authorization of the submitted batch and uses the PIN pad.    *)
(***************************************************************************)
InitProvision ==
    /\ InitSubmitted(1)
    /\ InitBrowsers
    /\ user_session = [c \in Clients |->
                          IF c = "c1" THEN CORECU_FINANCE ELSE CORECU_DATA]

NextProvision ==
    \/ StartAuthorization({"c1"})
    \/ ResetOnClose({"c1"})
    \/ PressPinPad({"c1"}, {new_pin_unhashed})
    \/ SubmitPin({"c1"})
    \/ PaymentModalOpened({"c1"})
    \/ FillPasswordForm(Clients, {ValidForm})
    \/ FillPasswordForm({"c1"}, PinFaultyForms)
    \/ ChangePassword(Clients)
    \/ CreateUser(Clients)

SpecProvision == InitProvision /\ [][NextProvision]_vars

(***************************************************************************)
(* SpecLive: one browser of the CORECU approver and one submitted batch,   *)
(* the events of SpecRuns, and a browser that does its part: a callback    *)
(* that an output triggers is dispatched, the interval fires every 1500 ms *)
(* for as long as it is enabled, and a request that the server has started *)
(* runs to its end; no storage error occurs.  What the user does, and      *)
(* when, is left to the user.                                              *)
(***************************************************************************)
Fairness ==
    /\ WF_vars(ResetOnClose({"c1"}))
    /\ WF_vars(PaymentModalOpened({"c1"}))
    /\ WF_vars(Tick({"c1"}))
    /\ WF_vars(Settle({"c1"}))

SpecLive == InitAuth /\ [][NextRuns]_vars /\ Fairness

(***************************************************************************)
(* Two cooperatives.  The admin has created an uploader for LMCU, and each  *)
(* uploader has submitted one file; browser c1 is the CORECU approver's,    *)
(* c2 the LMCU approver's.  An approver reaches the authorization modal     *)
(* from the payment-button of the details modal, which opens from a         *)
(* view-details-btn of the queue.                                           *)
(***************************************************************************)
LMCU_DATA == 5

users_of_two_cooperatives ==
    Append(init_db_users,
           new_user("lmcu_data", "LMCU Ltd", "coop_uploader", "10000"))

\* The user clicks a view-details-btn of the queue.
ViewDetails(C) ==
    \E c \in C : \E batch_id \in render_coop_approval_queue(c) :
        /\ Quiet(c)
        /\ ~payment_auth_modal_is_open[c]
        /\ ~payment_modal_is_open[c]
        /\ approver_details_modal[c] # <<[batch_id |-> batch_id]>>
        /\ toggle_approver_details_modal(c, batch_id)

\* The user clicks the payment-button of the details modal.
StartAuthorizationOfShown(C) ==
    \E c \in C :
        /\ approver_details_modal[c] # Nothing
        /\ StartAuthorizationFor(c, approver_details_modal[c][1].batch_id)

InitCoops ==
    /\ users = users_of_two_cooperatives
    /\ submission_batches =
          << NewBatch(CORECU_DATA, VerifiedFile(MaxRows)),
             NewBatch(LMCU_DATA, VerifiedFile(MaxRows)) >>
    /\ farmer_payments =
          RowsToDb(VerifiedFile(MaxRows), 1) \o RowsToDb(VerifiedFile(MaxRows), 2)
    /\ invoices = << NewInvoice(1, "CORECU Ltd", MaxRows, 1),
                     NewInvoice(2, "LMCU Ltd", MaxRows, 1) >>
    /\ payment_history = <<>>
    /\ activity_logs =
          << [user_id |-> ADMIN,
              cooperative_name |-> "Farmers Payment Module Admin",
              action |-> "User Created", batch_id |-> 0],
             [user_id |-> CORECU_DATA, cooperative_name |-> "CORECU Ltd",
              action |-> "Data Submission (Verified)", batch_id |-> 1],
             [user_id |-> LMCU_DATA, cooperative_name |-> "LMCU Ltd",
              action |-> "Data Submission (Verified)", batch_id |-> 2] >>
    /\ InitBrowsers
    /\ user_session = [c \in Clients |->
                          IF c = "c1" THEN CORECU_FINANCE ELSE LMCU_FINANCE]

NextCoops ==
    \/ ViewDetails(Clients)
    \/ StartAuthorizationOfShown(Clients)
    \/ ResetOnClose(Clients)
    \/ TypePassphrase(Clients, {coop_passphrase_unhashed})
    \/ SubmitPassphrase(Clients)
    \/ PressPinPad(Clients, {coop_pin_unhashed})
    \/ SubmitPin(Clients)
    \/ PaymentModalOpened(Clients)

SpecCoops == InitCoops /\ [][NextCoops]_vars

(***************************************************************************)
(* Properties.                                                             *)
(***************************************************************************)
StatusOf(b) == submission_batches[b].status

\* The step is handle_pin_step of browser c taking its success branch: the
\* only write of payment-modal.is_open by a callback other than
\* handle_payment_processing itself.
StartsPipeline(c) == ~payment_modal_event[c] /\ payment_modal_event'[c]

\* C1: submitPin authorizes (starts the pipeline, moves the batch to
\* pending_admin_approval) only in a session whose passphrase step was
\* passed and with the matching PIN; a submitPin issued while the step is
\* still "passphrase" never authorizes.
C1_AuthorizesOnlyAfterPassphraseAndPin ==
    [][\A c \in Clients :
          StartsPipeline(c) =>
              /\ payment_auth_step_store[c] = "pin"
              /\ check_user_pin(user_session[c], pin_input_store[c])]_vars

\* C2: the status of a batch never moves backwards in the order
\* coop_submitted < pending_admin_approval < verified < processed from one
\* committed state to the next.
C2_StatusNeverRegresses ==
    [][\A b \in Indices(submission_batches) :
          Rank(submission_batches'[b].status) >= Rank(StatusOf(b))]_vars

\* The step is the settlement commit of a finalize step of browser c on
\* batch b.
SettleStepOn(c, b) ==
    /\ finalize_req[c].pc = "settle"
    /\ finalize_req[c].id = b
    /\ finalize_req'[c].pc = "idle"
    /\ payment_history' # payment_history

\* The step belongs to a finalize step of browser c, and b is its batch.
FinalizeStepOn(c, b) ==
    \/ /\ finalize_req[c].pc = "idle"
       /\ finalize_req'[c].pc = "settle"
       /\ finalize_req'[c].id = b
    \/ SettleStepOn(c, b)

\* C3: a finalize step invoked for a batch that is already processed is
\* rejected: no batch status, row, invoice or payment-history entry changes
\* and no final result is returned.
C3_FinalizeOfProcessedBatchRejected ==
    [][\A c \in Clients, b \in Indices(submission_batches) :
          (FinalizeStepOn(c, b) /\ StatusOf(b) = "processed") =>
              /\ UNCHANGED <<submission_batches, farmer_payments, invoices,
                             payment_history>>
              /\ ipn_data_store'[c] = ipn_data_store[c]]_vars

InvoiceOf(b) == {i \in Indices(invoices) : invoices[i].batch_id = b}

\* C4: the finalize step is one atomic unit: no committed state has a batch
\* verified but not processed, or processed without its commission record.
C4_FinalizeIsAtomic ==
    \A b \in Indices(submission_batches) :
        /\ StatusOf(b) # "verified"
        /\ StatusOf(b) = "processed" =>
              \E i \in InvoiceOf(b) : invoices[i].payment_commission_usd # Nothing

HistoryOf(b) == {i \in Indices(payment_history) : payment_history[i].batch_id = b}

InFlight(c, b) ==
    \/ batch_to_process[c] # Nothing /\ batch_to_process[c][1].id = b
    \/ finalize_req[c].pc # "idle" /\ finalize_req[c].id = b

\* C5: at most one pipeline run is in flight for a batch, and the recheck and
\* settlement sequence is executed at most once for it.
C5_AtMostOnePipelinePerBatch ==
    \A b \in Indices(submission_batches) :
        /\ \A c1, c2 \in Clients : (InFlight(c1, b) /\ InFlight(c2, b)) => c1 = c2
        /\ Cardinality(HistoryOf(b)) <= 1

\* C6: settlement_status and failure_reason of a row are written at most
\* once: once a row has left pending, no later step changes them.
C6_SettlementWrittenOnce ==
    [][\A i \in Indices(farmer_payments) :
          farmer_payments[i].status # "pending" =>
              /\ farmer_payments'[i].status = farmer_payments[i].status
              /\ farmer_payments'[i].failure_reason =
                    farmer_payments[i].failure_reason]_vars

\* C7: the settlement of a finalize step gives settlement status failed to
\* every row whose verification status is failed at that time, whatever the
\* draw, so that right after it no row of the batch is paid with a failed
\* verification.
C7_FailedVerificationNeverPaid ==
    [][\A c \in Clients, b \in Indices(submission_batches) :
          SettleStepOn(c, b) =>
              \A i \in BatchRows(b) :
                  /\ farmer_payments[i].verification_status = "failed" =>
                        farmer_payments'[i].status = "failed"
                  /\ ~(/\ farmer_payments'[i].status = "paid"
                       /\ farmer_payments'[i].verification_status = "failed")]_vars

\* A processed batch with a row the admin recheck failed and the settlement
\* then failed for that reason.
C7_Witness ==
    \E i \in Indices(farmer_payments) :
        /\ farmer_payments[i].verification_status = "failed"
        /\ farmer_payments[i].status = "failed"
        /\ farmer_payments[i].failure_reason = "Verification Failed: Account Closed"
        /\ StatusOf(farmer_payments[i].batch_id) = "processed"

\* The step writes a correction into an editable cell of row i of the table
\* of browser c.
Corrects(c, i) ==
    /\ i \in Indices(table_data[c])
    /\ i \in Indices(table_data'[c])
    /\ \E column \in EditableColumns :
          /\ table_data'[c][i][column] # table_data[c][i][column]
          /\ table_data'[c][i][column] \in EditValues

\* C8: while the table of every browser is empty or has a failed row, a
\* submission starts no request and creates no batch, payment row or
\* invoice; correcting a cell leaves the verification status and reason of
\* its row as they are; every row of a new batch is verified.
C8_FailedRowsBlockSubmission ==
    [][/\ (\A c \in Clients :
              /\ submit_req[c].pc = "idle"
              /\ table_data[c] = <<>> \/ HasFailed(table_data[c]))
          => UNCHANGED <<submission_batches, farmer_payments, invoices, submit_req>>
       /\ \A c \in Clients, i \in 1..MaxRows :
             Corrects(c, i) =>
                /\ table_data'[c][i].verification_status =
                      table_data[c][i].verification_status
                /\ table_data'[c][i].verification_reason =
                      table_data[c][i].verification_reason
       /\ Len(submission_batches') > Len(submission_batches) =>
             /\ \E i \in Indices(farmer_payments') :
                   farmer_payments'[i].batch_id = Len(submission_batches')
             /\ \A i \in Indices(farmer_payments') :
                   farmer_payments'[i].batch_id = Len(submission_batches') =>
                      farmer_payments'[i].verification_status = "verified"]_vars

\* The uploader corrected a failed row, did not re-verify it, and the
\* submission of the table was rejected.
C8_Witness ==
    \E c \in Clients, i \in 1..MaxRows :
        /\ i \in Indices(table_data[c])
        /\ coop_alert[c] = "Submission Rejected"
        /\ table_data[c][i].verification_status = "failed"
        /\ table_data[c][i].farmer_name \in EditValues
        /\ submission_batches = <<>>

\* C9: whenever no submission is in progress, every batch has exactly one
\* invoice, and it is unpaid, also after a submission that failed between
\* the insertion of the batch and the insertion of the invoice.
C9_EveryBatchHasOneUnpaidInvoice ==
    (\A c \in Clients : submit_req[c].pc = "idle") =>
        \A b \in Indices(submission_batches) :
            /\ Cardinality(InvoiceOf(b)) = 1
            /\ \A i \in InvoiceOf(b) : invoices[i].status = "unpaid"

\* C10: the k-th invoice of a cooperative carries sequence number k, so the
\* sequence numbers of a cooperative are distinct and increase in creation
\* order, however the submissions of its browsers interleave.
C10_InvoiceSequenceNumbers ==
    \A i \in Indices(invoices) :
        invoices[i].invoice_reference[2] =
            Cardinality({j \in 1..i :
                invoices[j].cooperative_name = invoices[i].cooperative_name})

\* C11: the commission fields of an invoice are empty until the settlement
\* of its batch and are written exactly once: a settlement that writes the
\* commission of a batch finds it empty, and once written the fields never
\* change.
C11_CommissionWrittenOnce ==
    [][/\ \A c \in Clients, b \in Indices(submission_batches) :
             SettleStepOn(c, b) =>
                \A i \in InvoiceOf(b) :
                    /\ invoices[i].payment_commission_usd = Nothing
                    /\ invoices[i].payment_commission_reference = Nothing
       /\ \A i \in Indices(invoices) :
             invoices[i].payment_commission_usd # Nothing =>
                /\ invoices'[i].payment_commission_usd =
                      invoices[i].payment_commission_usd
                /\ invoices'[i].payment_commission_reference =
                      invoices[i].payment_commission_reference]_vars

\* C12: there is at most one payment-history entry per batch, a batch has
\* an entry exactly when its status is processed, and an entry is never
\* modified or deleted.
C12_OneHistoryEntryPerProcessedBatch ==
    [][/\ \A b \in Indices(submission_batches') :
             /\ Cardinality({i \in Indices(payment_history') :
                               payment_history'[i].batch_id = b}) <= 1
             /\ (\E i \in Indices(payment_history') :
                    payment_history'[i].batch_id = b)
                   <=> submission_batches'[b].status = "processed"
       /\ Len(payment_history') >= Len(payment_history)
       /\ \A i \in Indices(payment_history) :
             payment_history'[i] = payment_history[i]]_vars

\* The step closes the authorization modal of browser c without
\* authorizing: the Cancel button or the close button of the header.
ClosesAuthorization(c) ==
    /\ payment_auth_modal_is_open[c]
    /\ ~payment_auth_modal_is_open'[c]
    /\ ~StartsPipeline(c)

\* C13: cancelling or closing the authorization modal, at either step and
\* with any digits typed, changes no table of the database and starts no
\* pipeline, and once the close is handled the session is idle: no target
\* batch, no digits, modal closed.
C13_CancelHasNoEffect ==
    [][\A c \in Clients :
          /\ ClosesAuthorization(c) =>
                /\ UNCHANGED db
                /\ UNCHANGED <<batch_to_process, payment_modal_is_open,
                               payment_interval_disabled, finalize_req>>
          /\ (~payment_auth_modal_is_open'[c] /\ ~auth_modal_event'[c]) =>
                /\ payment_authorization_store'[c] = Nothing
                /\ pin_input_store'[c] = <<>>]_vars

\* The modal was closed from the PIN step without an authorization: the
\* step store still shows the step, the session is gone, the batch is
\* where it was.
C13_Witness ==
    \E c \in Clients :
        /\ ~payment_auth_modal_is_open[c]
        /\ ~auth_modal_event[c]
        /\ payment_auth_step_store[c] = "pin"
        /\ payment_authorization_store[c] = Nothing
        /\ Authorized(activity_logs) = {}
        /\ \A b \in Indices(submission_batches) : StatusOf(b) = "coop_submitted"

\* The step is handle_passphrase_step of browser c writing its outputs.
PassphraseStep(c) ==
    /\ auth_modal_event'[c] = auth_modal_event[c]
    /\ \/ payment_auth_step_store'[c] # payment_auth_step_store[c]
       \/ auth_passphrase_alert'[c] # auth_passphrase_alert[c]

PassphraseMatches(c) ==
    users[user_session[c]].passphrase = <<"sha256", auth_passphrase_input[c]>>

\* C14: a submitPassphrase with a passphrase that does not match leaves the
\* step at passphrase and the database as it is, however often it is
\* repeated; the step becomes pin only by a matching passphrase, and a
\* matching passphrase always advances it, whatever was submitted before.
C14_WrongPassphraseNeverAdvances ==
    [][\A c \in Clients :
          /\ PassphraseStep(c) =>
                /\ UNCHANGED db
                /\ payment_auth_step_store'[c] =
                      IF PassphraseMatches(c) THEN "pin" ELSE "passphrase"
          /\ (payment_auth_step_store[c] = "passphrase"
              /\ payment_auth_step_store'[c] = "pin") => PassphraseMatches(c)]_vars

\* A wrong passphrase was submitted: the alert shows, the step is
\* passphrase, the modal is still open on its batch.
C14_Witness ==
    \E c \in Clients :
        /\ auth_passphrase_alert[c] = "Invalid Passphrase. Please try again."
        /\ auth_passphrase_input[c] = admin_passphrase_unhashed
        /\ payment_auth_step_store[c] = "passphrase"
        /\ payment_auth_modal_is_open[c]
        /\ payment_authorization_store[c] # Nothing

\* C15: a submitPin with the matching PIN for a batch whose status is not
\* coop_submitted is turned down: whenever a browser starts a pipeline or a
\* "Payment Authorized" entry is logged for a batch, that batch was in
\* coop_submitted just before.
C15_PinForSettledBatchRejected ==
    [][/\ \A c \in Clients :
             StartsPipeline(c) =>
                StatusOf(payment_authorization_store[c][1].batch_id)
                    = "coop_submitted"
       /\ \A i \in Authorized(activity_logs') \ Authorized(activity_logs) :
             StatusOf(activity_logs'[i].batch_id) = "coop_submitted"]_vars

\* The step is the close event of the progress modal of browser c.
ClosesProgress(c) == payment_modal_is_open[c] /\ ~payment_modal_is_open'[c]

\* C16: a close event of the progress modal that arrives while the
\* pipeline of a batch is running, before its finalize step, does not stop
\* the pipeline: the browser keeps the batch to process and its interval
\* keeps ticking, so that the finalize step still runs.
C16_CloseDoesNotStopPipeline ==
    [][\A c \in Clients :
          (/\ ClosesProgress(c)
           /\ batch_to_process[c] # Nothing
           /\ finalize_req[c].pc = "idle") =>
              /\ batch_to_process'[c] = batch_to_process[c]
              /\ ~payment_interval_disabled'[c]]_vars

\* The step writes what a finalize step writes for batch b: the
\* verification or settlement fields of its rows, the status verified or
\* processed, its payment history or the commission of its invoice.
FinalizeMutates(b) ==
    \/ \E i \in BatchRows(b) : farmer_payments'[i] # farmer_payments[i]
    \/ /\ submission_batches'[b].status # submission_batches[b].status
       /\ submission_batches'[b].status \in {"verified", "processed"}
    \/ HistoryOf(b)' # HistoryOf(b)
    \/ \E i \in InvoiceOf(b) : invoices'[i] # invoices[i]

AuthorizedFor(logs, b) == {i \in Authorized(logs) : logs[i].batch_id = b}

\* C17: a finalize step writes to a batch only after a successful
\* authorization has moved it to pending_admin_approval: the batch is not
\* in coop_submitted when the step starts and its authorization is logged;
\* a batch leaves coop_submitted only for pending_admin_approval, in the
\* step that logs its authorization.
C17_FinalizeOnlyAfterAuthorization ==
    [][\A b \in Indices(submission_batches) :
          /\ FinalizeMutates(b) =>
                /\ StatusOf(b) # "coop_submitted"
                /\ AuthorizedFor(activity_logs, b) # {}
          /\ (StatusOf(b) = "coop_submitted"
              /\ submission_batches'[b].status # "coop_submitted") =>
                /\ submission_batches'[b].status = "pending_admin_approval"
                /\ AuthorizedFor(activity_logs', b) # AuthorizedFor(activity_logs, b)]_vars

\* A batch was authorized once and its pipeline has settled it.
C17_Witness ==
    \E b \in Indices(submission_batches) :
        /\ StatusOf(b) = "processed"
        /\ HistoryOf(b) # {}
        /\ Cardinality(AuthorizedFor(activity_logs, b)) = 1
        /\ \E i \in BatchRows(b) : farmer_payments[i].status = "paid"

\* The step is the admin recheck pass of a finalize step of browser c on
\* batch b.
RecheckStepOn(c, b) ==
    /\ finalize_req[c].pc = "idle"
    /\ finalize_req'[c].pc = "settle"
    /\ finalize_req'[c].id = b
    /\ finalize_req'[c].status = "pending_admin_approval"

\* C18: the admin recheck pass only adds failures: a row that is failed
\* before the pass is failed after it, with the reason it had or, if it
\* had none, the marker "Pre-verified Failed (Uncorrected)"; a row whose
\* verification status changes in the pass was verified before it.
C18_RecheckIsAttritionOnly ==
    [][\A c \in Clients, b \in Indices(submission_batches) :
          RecheckStepOn(c, b) =>
             \A i \in BatchRows(b) :
                 /\ farmer_payments[i].verification_status = "failed" =>
                       /\ farmer_payments'[i].verification_status = "failed"
                       /\ farmer_payments'[i].verification_reason =
                             IF farmer_payments[i].verification_reason # None
                             THEN farmer_payments[i].verification_reason
                             ELSE UNCORRECTED
                 /\ farmer_payments'[i].verification_status
                       # farmer_payments[i].verification_status =>
                       farmer_payments[i].verification_status = "verified"]_vars

\* The recheck pass has run twice on a batch (the first finalize step
\* failed after its first commit) and a row of the batch is failed.
C18_Witness ==
    \E c \in Clients, b \in Indices(submission_batches) :
        /\ finalize_req[c].pc = "settle"
        /\ finalize_req[c].id = b
        /\ Cardinality({i \in Indices(activity_logs) :
                           /\ activity_logs[i].action = "Account Verification"
                           /\ activity_logs[i].batch_id = b}) = 2
        /\ \E i \in BatchRows(b) :
              /\ farmer_payments[i].verification_status = "failed"
              /\ farmer_payments[i].verification_reason = "Name Mismatch"

\* C19: the settlement gives every row whose verification is failed with
\* reason r the failure reason "Verification Failed: " followed by r, and
\* r is a reason in words, never empty and never null ("Account Closed"
\* gives "Verification Failed: Account Closed").
C19_SettlementReasonOfFailedVerification ==
    [][\A c \in Clients, b \in Indices(submission_batches) :
          SettleStepOn(c, b) =>
             \A i \in BatchRows(b) :
                 farmer_payments[i].verification_status = "failed" =>
                    /\ farmer_payments[i].verification_reason \notin {None, ""}
                    /\ farmer_payments'[i].failure_reason =
                          "Verification Failed: "
                              \o farmer_payments[i].verification_reason
                    /\ farmer_payments[i].verification_reason = "Account Closed" =>
                          farmer_payments'[i].failure_reason =
                              "Verification Failed: Account Closed"]_vars

\* The settlement has just written the failure reason of a row the recheck
\* failed for a mismatch of the name.
C19_Witness ==
    \E i \in Indices(farmer_payments) :
        /\ farmer_payments[i].verification_status = "failed"
        /\ farmer_payments[i].verification_reason = "Name Mismatch"
        /\ farmer_payments[i].failure_reason = "Verification Failed: Name Mismatch"
        /\ HistoryOf(farmer_payments[i].batch_id) # {}

\* C20: the amount of every invoice is 1.50 USD for each row of its batch:
\* 150 cents times the record count, which is the number of rows the
\* submission stored; 100 rows are invoiced 150.00.
C20_InvoiceAmount ==
    /\ \A i \in Indices(invoices) :
          LET b == invoices[i].batch_id IN
          /\ invoices[i].row_count = submission_batches[b].record_count
          /\ submission_batches[b].record_count = Cardinality(BatchRows(b))
          /\ invoices[i].amount_usd_cents = 150 * Cardinality(BatchRows(b))
    /\ amount_usd_cents(100) = 15000

\* A submission has gone through: its batch has its rows and its invoice.
C20_Witness ==
    \E c \in Clients, i \in Indices(invoices) :
        /\ coop_alert[c] = "Successfully submitted"
        /\ submit_req[c].pc = "idle"
        /\ Cardinality(BatchRows(invoices[i].batch_id)) >= 1
        /\ invoices[i].amount_usd_cents = 150 * invoices[i].row_count

\* The sum of the amounts of the rows stored for batch b.
SubmittedAmount(b) ==
    SumAmounts(SelectSeq(farmer_payments, LAMBDA row : row.batch_id = b))

\* C21: the commission the settlement writes is (total_amount x 0.025) /
\* 2500 USD, total_amount being the sum of the amounts of all the rows of
\* the submission, whatever the settlement makes of the rows; in
\* millionths of a dollar, commission x 2500 = total_amount x 25000, and
\* 1,000,000 TSH give 10.00 USD.
C21_CommissionAmount ==
    [][/\ \A c \in Clients, b \in Indices(submission_batches) :
             SettleStepOn(c, b) =>
                \A i \in InvoiceOf(b) :
                    /\ Len(invoices'[i].payment_commission_usd) = 1
                    /\ invoices'[i].payment_commission_usd[1] * 2500
                          = SubmittedAmount(b) * 25000
                    /\ submission_batches[b].total_amount = SubmittedAmount(b)
       /\ commission_usd_micros(1000000) = 10 * 1000000]_vars

\* A batch is settled with a row that was not paid, and its invoice
\* carries the commission on the whole amount.
C21_Witness ==
    \E b \in Indices(submission_batches), i \in Indices(invoices) :
        /\ invoices[i].batch_id = b
        /\ invoices[i].payment_commission_usd = <<10 * SubmittedAmount(b)>>
        /\ SubmittedAmount(b) > 0
        /\ StatusOf(b) = "processed"
        /\ \E k \in BatchRows(b) : farmer_payments[k].status = "failed"

\* The table out is the table df with its rows classified again.
Reclassified(df, out) ==
    /\ Len(out) = Len(df)
    /\ \A i \in Indices(df) :
          /\ out[i].farmer_name = df[i].farmer_name
          /\ out[i].bank_name = df[i].bank_name
          /\ out[i].account_number = df[i].account_number
          /\ out[i].amount = df[i].amount
          /\ \/ /\ out[i].verification_status = "verified"
                /\ out[i].verification_reason = None
             \/ /\ out[i].verification_status = "failed"
                /\ out[i].verification_reason \in
                      {"Account Closed", "Name Mismatch", "Invalid Bank Code",
                       "System Check Failed"}

\* C22: whatever table a browser shows, the verification pass gives a
\* table with the same rows in the same order, in which only the
\* verification status and reason differ: each row verified with no reason
\* or failed with one of the four reasons; whatever the rows were before,
\* every one of the five outcomes is possible for every row.
C22_VerificationChangesOnlyItsFields ==
    \A c \in Clients :
        /\ \A out \in simulate_bank_verification(table_data[c]) :
              Reclassified(table_data[c], out)
        /\ Cardinality(simulate_bank_verification(table_data[c]))
              = 5 ^ Len(table_data[c])

\* A table with a corrected row that the verification has failed: an
\* input of the next pass with a classification of its own.
C22_Witness ==
    \E c \in Clients, i \in 1..MaxRows :
        /\ i \in Indices(table_data[c])
        /\ table_data[c][i].farmer_name = "corrected"
        /\ table_data[c][i].verification_status = "failed"
        /\ table_data[c][i].verification_reason = "System Check Failed"

\* The step changes the status, a row, the invoice or the payment history
\* of batch b.
BatchChanged(b) ==
    \/ submission_batches'[b] # submission_batches[b]
    \/ \E i \in BatchRows(b) : farmer_payments'[i] # farmer_payments[i]
    \/ HistoryOf(b)' # HistoryOf(b)
    \/ \E i \in InvoiceOf(b) : invoices'[i] # invoices[i]
    \/ InvoiceOf(b)' # InvoiceOf(b)

\* The step is a submitPin of the session of browser c for batch a, or a
\* step of the pipeline of browser c for batch a.
ActsOn(c, a) ==
    \/ /\ StartsPipeline(c)
       /\ payment_authorization_store[c] = <<[batch_id |-> a]>>
    \/ FinalizeStepOn(c, a)

\* The step changes something the page of browser c holds.
BrowserChanged(c) ==
    \/ payment_auth_modal_is_open'[c] # payment_auth_modal_is_open[c]
    \/ auth_modal_event'[c] # auth_modal_event[c]
    \/ payment_authorization_store'[c] # payment_authorization_store[c]
    \/ payment_auth_step_store'[c] # payment_auth_step_store[c]
    \/ auth_passphrase_input'[c] # auth_passphrase_input[c]
    \/ auth_passphrase_alert'[c] # auth_passphrase_alert[c]
    \/ auth_pin_alert'[c] # auth_pin_alert[c]
    \/ batch_to_process'[c] # batch_to_process[c]
    \/ payment_modal_is_open'[c] # payment_modal_is_open[c]
    \/ payment_modal_event'[c] # payment_modal_event[c]
    \/ payment_interval_disabled'[c] # payment_interval_disabled[c]
    \/ n_intervals'[c] # n_intervals[c]
    \/ finalize_req'[c] # finalize_req[c]

\* C23: a session or a pipeline for batch a changes nothing of any other
\* batch, and a batch changes only in a step of a session or pipeline for
\* that very batch; the digit buffer of a browser changes only in a step
\* that leaves every other browser as it was, and a submitPin succeeds on
\* the digits of its own buffer.
C23_BatchesAreIndependent ==
    [][/\ \A c \in Clients, a \in Indices(submission_batches) :
             ActsOn(c, a) =>
                \A b \in Indices(submission_batches) \ {a} : ~BatchChanged(b)
       /\ \A b \in Indices(submission_batches) :
             BatchChanged(b) => \E c \in Clients : ActsOn(c, b)
       /\ \A c \in Clients :
             /\ pin_input_store'[c] # pin_input_store[c] =>
                   \A d \in Clients \ {c} :
                       /\ pin_input_store'[d] = pin_input_store[d]
                       /\ ~BrowserChanged(d)
             /\ StartsPipeline(c) =>
                   check_user_pin(user_session[c], pin_input_store[c])]_vars

\* The two browsers have settled a batch each: both pipelines have run,
\* in some interleaving, and each batch has its one payment history entry.
C23_Witness ==
    /\ StatusOf(1) = "processed"
    /\ StatusOf(MaxBatches) = "processed"
    /\ Cardinality(HistoryOf(1)) = 1
    /\ Cardinality(HistoryOf(MaxBatches)) = 1
    /\ \A c \in Clients : batch_to_process[c] = Nothing

\* C24: the rejection a passphrase mismatch returns and the rejection a
\* PIN mismatch returns are the same value: of the rejections the pages
\* show, none tells which of the two secrets failed.
C24_RejectionsAreAlike ==
    \A c, d \in Clients :
        (auth_passphrase_alert[c] # None /\ auth_pin_alert[d] # None) =>
            auth_passphrase_alert[c] = auth_pin_alert[d]

\* C25: a batch never has more "Payment Authorized" entries than it has
\* made transitions from coop_submitted to pending_admin_approval: none
\* while it is in coop_submitted, one afterwards.
C25_OneAuthorizationEntryPerTransition ==
    \A b \in Indices(submission_batches) :
        Cardinality(AuthorizedFor(activity_logs, b))
            <= IF StatusOf(b) = "coop_submitted" THEN 0 ELSE 1

\* The step is handle_pin_step of browser c answering with its rejection.
RejectsPin(c) ==
    /\ auth_pin_alert'[c] # None
    /\ auth_pin_alert'[c] # auth_pin_alert[c]

PinMatches(c) ==
    users[user_session[c]].pin = <<"sha256", pin_input_store[c]>>

\* C26: a submitPin is turned down only when the PIN does not match, and
\* then the session keeps its step and its target batch, the modal stays
\* open, the digit buffer is emptied and nothing persisted changes: no
\* status, no audit entry, no pipeline.
C26_WrongPinChangesNothing ==
    [][\A c \in Clients :
          RejectsPin(c) =>
             /\ ~PinMatches(c)
             /\ auth_pin_alert'[c] = "Invalid PIN. Please try again."
             /\ payment_auth_step_store'[c] = payment_auth_step_store[c]
             /\ payment_authorization_store'[c] = payment_authorization_store[c]
             /\ payment_auth_modal_is_open'[c] = payment_auth_modal_is_open[c]
             /\ pin_input_store'[c] = <<>>
             /\ UNCHANGED db
             /\ ~StartsPipeline(c)
             /\ UNCHANGED <<batch_to_process, payment_modal_is_open,
                            payment_interval_disabled>>]_vars

\* A wrong PIN was submitted in the pin step: the rejection shows, the
\* session is still in the pin step on its batch, the buffer is empty.
C26_Witness ==
    \E c \in Clients :
        /\ auth_pin_alert[c] = "Invalid PIN. Please try again."
        /\ payment_auth_step_store[c] = "pin"
        /\ payment_authorization_store[c] = <<[batch_id |-> 1]>>
        /\ payment_auth_modal_is_open[c]
        /\ pin_input_store[c] = <<>>
        /\ StatusOf(1) = "coop_submitted"
        /\ Authorized(activity_logs) = {}

\* C27: once an authorization session is over (by success, cancellation
\* or the close of the modal, the reset of the modal done), nothing of it
\* is left: no target batch, the step passphrase, no digit in the buffer.
C27_FinishedSessionIsReset ==
    \A c \in Clients :
        (~payment_auth_modal_is_open[c] /\ ~auth_modal_event[c]) =>
            /\ payment_authorization_store[c] = Nothing
            /\ payment_auth_step_store[c] = "passphrase"
            /\ pin_input_store[c] = <<>>

Digits == {"0", "1", "2", "3", "4", "5", "6", "7", "8", "9"}

\* C28: the digit buffer never holds more than 6 characters, all of them
\* digits; it changes only by a digit appended to fewer than 6, by the
\* removal of its last digit, or by being emptied.
C28_PinBufferBounded ==
    [][\A c \in Clients :
          /\ Len(pin_input_store'[c]) <= 6
          /\ \A k \in Indices(pin_input_store'[c]) :
                pin_input_store'[c][k] \in Digits
          /\ pin_input_store'[c] # pin_input_store[c] =>
                \/ /\ Len(pin_input_store[c]) < 6
                   /\ \E digit \in Digits :
                         pin_input_store'[c] = Append(pin_input_store[c], digit)
                \/ /\ pin_input_store[c] # <<>>
                   /\ pin_input_store'[c] =
                         SubSeq(pin_input_store[c], 1, Len(pin_input_store[c]) - 1)
                \/ pin_input_store'[c] = <<>>]_vars

\* The buffer is full, with the six digits of a PIN that is not the
\* user's.
C28_Witness ==
    \E c \in Clients :
        /\ Len(pin_input_store[c]) = 6
        /\ pin_input_store[c] = admin_pin_unhashed
        /\ payment_auth_modal_is_open[c]
        /\ user_session[c] = CORECU_FINANCE

\* The step is a tick of the interval of browser c; its index is the new
\* count.
TickOf(c) == n_intervals'[c] = n_intervals[c] + 1

\* C29: a tick of index below 4 changes nothing persisted (no status, row,
\* invoice, payment history or audit entry) and starts no finalize step;
\* a finalize step runs in a tick of index 4 or more only.
C29_EarlyTicksChangeNothing ==
    [][\A c \in Clients :
          /\ (TickOf(c) /\ n_intervals'[c] < 4) =>
                /\ UNCHANGED db
                /\ finalize_req'[c] = finalize_req[c]
                /\ batch_to_process'[c] = batch_to_process[c]
          /\ \A b \in Indices(submission_batches) :
                /\ RecheckStepOn(c, b) => (TickOf(c) /\ n_intervals'[c] >= 4)
                /\ FinalizeStepOn(c, b) => n_intervals'[c] >= 4]_vars

\* The third tick of a pipeline has passed: the batch is authorized and
\* nothing else has been written for it.
C29_Witness ==
    \E c \in Clients :
        /\ n_intervals[c] = 3
        /\ batch_to_process[c] = <<[id |-> 1, status |-> "pending_admin_approval"]>>
        /\ finalize_req[c] = IdleFinalize
        /\ StatusOf(1) = "pending_admin_approval"
        /\ Len(activity_logs) = 2
        /\ payment_history = <<>>

\* C30: every run of the pipeline counts its ticks from 0: when a
\* successful submitPin starts a run, the tick index of the browser is 0,
\* so that the run shows its progress ticks before its finalize step, a
\* second run on the same page included.
C30_EveryRunStartsAtTickZero ==
    [][\A c \in Clients : StartsPipeline(c) => n_intervals'[c] = 0]_vars

\* What a payment row holds of the uploaded file.
RowData(i) ==
    [batch_id |-> farmer_payments[i].batch_id,
     farmer_name |-> farmer_payments[i].farmer_name,
     bank_name |-> farmer_payments[i].bank_name,
     account_number |-> farmer_payments[i].account_number,
     amount |-> farmer_payments[i].amount]

\* C31: once a batch is there, no step changes the set of its payment rows,
\* the farmer_name, bank_name, account_number or amount of any of them, or
\* the record_count and total_amount of the batch: the authorization and
\* the pipeline write status and reason fields only.
C31_BatchDataIsImmutable ==
    [][\A b \in Indices(submission_batches) :
          /\ b \in Indices(submission_batches')
          /\ BatchRows(b)' = BatchRows(b)
          /\ \A i \in BatchRows(b) : RowData(i)' = RowData(i)
          /\ submission_batches'[b].cooperative_id =
                submission_batches[b].cooperative_id
          /\ submission_batches'[b].record_count =
                submission_batches[b].record_count
          /\ submission_batches'[b].total_amount =
                submission_batches[b].total_amount]_vars

\* The batch went through authorization, recheck and settlement, and the
\* settlement failed a row: both UPDATEs of farmer_payments have written
\* that row, which still has the amount of the file.
C31_Witness ==
    /\ StatusOf(1) = "processed"
    /\ \E i \in BatchRows(1) :
          /\ farmer_payments[i].status = "failed"
          /\ farmer_payments[i].failure_reason \in SETTLEMENT_REASONS
          /\ farmer_payments[i].amount = RawRow(i).amount
    /\ submission_batches[1].record_count = MaxRows
\* The form fails the validation: a field is missing, the password differs
\* from its confirmation or is shorter than 6, the passphrase is shorter
\* than 8, or the PIN is not exactly 6 digits.
FailsValidation(form) ==
    \/ form.new_password \in {None, ""}
    \/ form.confirm_password \in {None, ""}
    \/ form.new_passphrase \in {None, ""}
    \/ form.new_pin = <<>>
    \/ form.new_password # form.confirm_password
    \/ len(form.new_password) < 6
    \/ len(form.new_passphrase) < 8
    \/ Len(form.new_pin) # 6
    \/ \E k \in Indices(form.new_pin) : form.new_pin[k] \notin DECIMAL_DIGITS

\* What the users table holds of the secrets of user u.
Credentials(u) ==
    [password |-> users[u].password, passphrase |-> users[u].passphrase,
     pin |-> users[u].pin, temp_password |-> users[u].temp_password]

\* C32: a step that changes a stored hash or the temporary-password marker
\* of a user, or that adds a 'Password Change' entry to the audit log, is
\* the request of a browser whose user is an approver or the admin and
\* whose form passes the validation: a request that fails the validation,
\* or that comes from another role, writes neither.
C32_RejectedRotationWritesNothing ==
    [][(\/ \E u \in Indices(users) : Credentials(u)' # Credentials(u)
        \/ Rotations(activity_logs)' # Rotations(activity_logs))
       => \E c \in Clients :
             /\ session_data(c).role \in {"coop_approver", "admin"}
             /\ ~FailsValidation(password_form[c])
             /\ password_change_alert'[c] = None]_vars

\* The approver was turned down with a PIN of six characters that are not
\* all digits, after an earlier request of the same browser went through:
\* the hashes are still the ones that request stored.
C32_Witness ==
    \E c \in Clients :
        /\ session_data(c).role = "coop_approver"
        /\ password_form[c] = [ValidForm EXCEPT !.new_pin[6] = "x"]
        /\ password_change_alert[c] = "PIN must be exactly 6 digits."
        /\ Cardinality(Rotations(activity_logs)) = 1
        /\ users[user_session[c]].pin = sha256(new_pin_unhashed)

\* The uploader was turned down with a form that passes the validation:
\* the table is the one of init_db and the audit log has no such entry.
C32_WitnessOtherRole ==
    /\ \E c \in Clients :
          /\ session_data(c).role = "coop_uploader"
          /\ password_form[c] = ValidForm
          /\ password_change_alert[c] = "Access Denied."
    /\ users = init_db_users
    /\ Rotations(activity_logs) = {}
KnownPassphrases ==
    {coop_passphrase_unhashed, admin_passphrase_unhashed, "eight888"}
KnownPins == {coop_pin_unhashed, admin_pin_unhashed, new_pin_unhashed}

\* The step is a handle_passphrase_step of browser c that advances.
AdvancesToPin(c) ==
    /\ payment_auth_step_store[c] = "passphrase"
    /\ payment_auth_step_store'[c] = "pin"

\* C33: a credential change that goes through stores, for the user of the
\* request, hashes that the new passphrase and the new PIN match and no
\* other passphrase or PIN does, clears the temporary-password marker and
\* leaves the rows of the other users alone; and a passphrase step
\* advances, and a submitPin starts the pipeline, only on the passphrase
\* or PIN that matches what is stored at the time of that step.
C33_RotationReplacesCredentials ==
    [][/\ Rotations(activity_logs)' # Rotations(activity_logs) =>
             \E c \in Clients :
                 LET u == user_session[c]
                     form == password_form[c]
                 IN /\ ~FailsValidation(form)
                    /\ check_user_passphrase(u, form.new_passphrase)'
                    /\ check_user_pin(u, form.new_pin)'
                    /\ \A text \in KnownPassphrases \ {form.new_passphrase} :
                          ~check_user_passphrase(u, text)'
                    /\ \A pin \in KnownPins \ {form.new_pin} :
                          ~check_user_pin(u, pin)'
                    /\ users'[u].temp_password = None
                    /\ users'[u].password = sha256(form.new_password)
                    /\ \A v \in Indices(users) \ {u} : users'[v] = users[v]
       /\ \A c \in Clients :
             /\ AdvancesToPin(c) =>
                   check_user_passphrase(user_session[c], auth_passphrase_input[c])
             /\ StartsPipeline(c) =>
                   check_user_pin(user_session[c], pin_input_store[c])]_vars

\* The approver passed the passphrase step with the old passphrase, changed
\* the credentials in the other browser, and authorized the batch with the
\* new PIN: the input still shows the old passphrase, which no longer
\* matches.
C33_Witness ==
    /\ auth_passphrase_input["c1"] = coop_passphrase_unhashed
    /\ payment_auth_step_store["c1"] = "pin"
    /\ ~check_user_passphrase(CORECU_FINANCE, coop_passphrase_unhashed)
    /\ check_user_pin(CORECU_FINANCE, new_pin_unhashed)
    /\ users[CORECU_FINANCE].temp_password = None
    /\ StatusOf(1) = "pending_admin_approval"
    /\ activity_logs[Len(activity_logs)].action = "Payment Authorized"
    /\ activity_logs[Len(activity_logs) - 1].action = "Password Change"
C35_ProcessedIffRowsSettled ==
    \A b \in Indices(submission_batches) :
        BatchRows(b) # {} =>
            IF StatusOf(b) = "processed"
            THEN \A i \in BatchRows(b) :
                     farmer_payments[i].status \in {"paid", "failed"}
            ELSE \A i \in BatchRows(b) : farmer_payments[i].status = "pending"
\* The persisted payment rows of batch b, in the order of their ids.
RowsOf(b) == SelectSeq(farmer_payments, LAMBDA row : row.batch_id = b)

\* C38: in every committed state, the record_count of a batch is the
\* number of its payment rows and its total_amount is the sum of their
\* amounts.
C38_BatchTotalsMatchRows ==
    \A b \in Indices(submission_batches) :
        /\ submission_batches[b].record_count = Len(RowsOf(b))
        /\ submission_batches[b].total_amount = SumAmounts(RowsOf(b))

\* A submission went through: the batch, its rows and its invoice are
\* there, and the uploader has the success message.
C38_Witness ==
    /\ Len(submission_batches) = 1
    /\ Len(RowsOf(1)) = MaxRows
    /\ submission_batches[1].total_amount > 0
    /\ InvoiceOf(1) # {}
    /\ coop_alert["c1"] = "Successfully submitted"
\* The texts and the digit buffers submitted to the two steps.
SubmittedPassphrases == KnownPassphrases \cup {"", "sixsix", coop_pass_unhashed}
SubmittedPins ==
    KnownPins \cup {<<>>} \cup
    {SubSeq(pin, 1, n) : pin \in KnownPins, n \in 1..(PIN_LENGTH - 1)}

\* C36: an uploader account has no passphrase hash and no PIN hash in any
\* state, whatever new users were created and whatever credential changes
\* were requested, and neither check passes for it on any submitted text.
C36_UploaderNeverPassesAuthorization ==
    \A u \in Indices(users) :
        users[u].role = "coop_uploader" =>
            /\ users[u].passphrase = Nothing
            /\ users[u].pin = Nothing
            /\ \A text \in SubmittedPassphrases : ~check_user_passphrase(u, text)
            /\ \A pin \in SubmittedPins : ~check_user_pin(u, pin)

\* The approver created a second uploader and changed its own credentials,
\* and the first uploader sent a form that passes the validation and was
\* turned down.
C36_Witness ==
    /\ Len(users) = Len(init_db_users) + 1
    /\ users[Len(users)].role = "coop_uploader"
    /\ users[Len(users)].username = "corecu_clerk"
    /\ password_form["c2"] = ValidForm
    /\ password_change_alert["c2"] = "Access Denied."
    /\ Cardinality(Rotations(activity_logs)) = 1
\* The PIN whose hash row u of the table stores is six decimal digits (the
\* PIN is the argument the hash was computed from).
StoredPinIsSixDigits(table, u) ==
    LET pin == table[u].pin[2] IN
    /\ Len(pin) = PIN_LENGTH
    /\ \A k \in Indices(pin) : pin[k] \in DECIMAL_DIGITS

\* C37: before and after every step, every PIN hash of the users table is
\* the hash of exactly six digits, whether init_db, create_coop_user or a
\* credential change stored it; and a submitPin starts the pipeline only
\* on a buffer of six digits, never on a shorter or an empty one.
C37_StoredPinsAreSixDigits ==
    [][/\ \A u \in Indices(users) :
             users[u].pin # Nothing => StoredPinIsSixDigits(users, u)
       /\ \A u \in Indices(users') :
             users'[u].pin # Nothing => StoredPinIsSixDigits(users', u)
       /\ \A c \in Clients :
             StartsPipeline(c) => Len(pin_input_store[c]) = PIN_LENGTH]_vars

\* The approver created a second approver, changed its own PIN, opened the
\* authorization and submitted a buffer that is a proper prefix of the new
\* PIN (the only buffers typed here are prefixes of it): it was rejected.
C37_Witness ==
    /\ Len(users) = Len(init_db_users) + 1
    /\ users[Len(users)].pin = sha256(coop_pin_unhashed)
    /\ users[CORECU_FINANCE].pin = sha256(new_pin_unhashed)
    /\ payment_auth_modal_is_open["c1"]
    /\ auth_pin_alert["c1"] = "Invalid PIN. Please try again."
    /\ StatusOf(1) = "coop_submitted"
\* The cooperative whose uploader submitted batch b.
CooperativeOf(b) == users[submission_batches[b].cooperative_id].cooperative_name

====
